---- MODULE Spec2Model ----
(***************************************************************************)
(* Model of the go-efd client (package efd): the EFDClient session, the    *)
(* paginated search against /search/report/data/, the URL classifier and   *)
(* the document handlers.                                                   *)
(*                                                                          *)
(* Strings are sequences of one-character strings, so that the string      *)
(* functions of the code (path.Split, path.Clean, strings.ToLower,         *)
(* strings.Replace, time.Parse) are computed and not assumed.  A markup    *)
(* fragment is a sequence in which a tag is one element (see parseAnchor). *)
(***************************************************************************)
EXTENDS Integers, Sequences, FiniteSets, TLC

(***************************************************************************)
(* Bounds of the model.                                                    *)
(***************************************************************************)
MaxSegs == 3        \* segments of a path given to URLToReportFormat
MaxPages == 2       \* recordsTotal ranges over 0 .. MaxPages * length
MaxRows == 2        \* rows in the data array of one search page
MaxTrs == 2         \* rows of a table and filing images of a document
MaxText == 2        \* characters of the text of an anchor in a ticker cell

(***************************************************************************)
(* String helpers.                                                         *)
(***************************************************************************)
Slash == "/"

S_ptr == <<"p", "t", "r">>
S_annual == <<"a", "n", "n", "u", "a", "l">>
S_paper == <<"p", "a", "p", "e", "r">>
S_regular == <<"r", "e", "g", "u", "l", "a", "r">>
S_extension == <<"e", "x", "t", "e", "n", "s", "i", "o", "n", "-", "n", "o", "t", "i", "c", "e">>
S_view == <<"v", "i", "e", "w">>
S_print == <<"p", "r", "i", "n", "t">>
S_search == <<"s", "e", "a", "r", "c", "h">>
S_dot == <<".">>
S_dotdot == <<".", ".">>
S_root == <<"/">>

\* s[from..] as a sequence
Drop(s, n) == SubSeq(s, n + 1, Len(s))
Take(s, n) == SubSeq(s, 1, n)

\* strings.LastIndex(s, "/") + 1: position of the last slash, 0 when none
LastSlash(s) ==
    IF \E i \in 1..Len(s) : s[i] = Slash
    THEN CHOOSE i \in 1..Len(s) : s[i] = Slash /\ \A j \in (i + 1)..Len(s) : s[j] # Slash
    ELSE 0

\* position of the first slash, 0 when none
FirstSlash(s) ==
    IF \E i \in 1..Len(s) : s[i] = Slash
    THEN CHOOSE i \in 1..Len(s) : s[i] = Slash /\ \A j \in 1..(i - 1) : s[j] # Slash
    ELSE 0

\* strings.Split(s, "/")
RECURSIVE SplitSlash(_)
SplitSlash(s) ==
    LET i == FirstSlash(s)
    IN IF i = 0 THEN <<s>> ELSE <<Take(s, i - 1)>> \o SplitSlash(Drop(s, i))

\* strings.Join(segs, "/")
RECURSIVE JoinSlash(_)
JoinSlash(segs) ==
    IF Len(segs) = 0 THEN <<>>
    ELSE IF Len(segs) = 1 THEN segs[1]
    ELSE segs[1] \o <<Slash>> \o JoinSlash(Tail(segs))

\* the element stack path.Clean builds: empty and "." elements are dropped,
\* ".." removes the element before it (kept at the front of an unrooted path)
RECURSIVE CleanSegs(_, _, _)
CleanSegs(segs, out, rooted) ==
    IF Len(segs) = 0 THEN out
    ELSE LET e == Head(segs)
             rest == Tail(segs)
         IN IF e = <<>> \/ e = S_dot THEN CleanSegs(rest, out, rooted)
            ELSE IF e = S_dotdot
                 THEN IF Len(out) > 0 /\ out[Len(out)] # S_dotdot
                      THEN CleanSegs(rest, Take(out, Len(out) - 1), rooted)
                      ELSE IF rooted THEN CleanSegs(rest, out, rooted)
                           ELSE CleanSegs(rest, Append(out, e), rooted)
                 ELSE CleanSegs(rest, Append(out, e), rooted)

\* the end of path.Clean: the cleaned elements written out
CleanOut(rooted, body) ==
    IF rooted THEN <<Slash>> \o body
    ELSE IF Len(body) = 0 THEN S_dot ELSE body

\* path.Clean
Clean(p) ==
    IF Len(p) = 0 THEN S_dot
    ELSE CleanOut(p[1] = Slash, JoinSlash(CleanSegs(SplitSlash(p), <<>>, p[1] = Slash)))

\* path.Split: (dir, file), dir ends in the last slash
PathSplit(p) == LET i == LastSlash(p) IN [dir |-> Take(p, i), file |-> Drop(p, i)]

\* path.Dir
PathDir(p) == Clean(PathSplit(p).dir)

\* p without its trailing slashes
RECURSIVE StripTrailingSlashes(_)
StripTrailingSlashes(p) ==
    IF Len(p) > 0 /\ p[Len(p)] = Slash THEN StripTrailingSlashes(Take(p, Len(p) - 1)) ELSE p

\* the end of path.Base: what follows the last slash, "/" when nothing is left
LastElement(q) == IF Len(q) = 0 THEN S_root ELSE Drop(q, LastSlash(q))

\* path.Base
PathBase(p) == IF Len(p) = 0 THEN S_dot ELSE LastElement(StripTrailingSlashes(p))

(***************************************************************************)
(* ReportFormat and URLToReportFormat.                                     *)
(***************************************************************************)
AnnualFormat == "Annual"
DueDateExtensionFormat == "DueDateExtension"
PTRFormat == "PTR"
BlindTrustFormat == "BlindTrust"
OtherDocumentFormat == "OtherDocument"
PaperFormat == "Paper"
UnknownFormat == "Unknown"

ReportFormat == {AnnualFormat, DueDateExtensionFormat, PTRFormat, BlindTrustFormat,
                 OtherDocumentFormat, PaperFormat, UnknownFormat}

\* the segment the switch of URLToReportFormat looks at
FormatSegment(dir) == PathBase(dir)

\* the segment before it, looked at in the case "regular"
ParentSegment(dir) == PathBase(PathDir(dir))

\* FormatSwitch when "regular" is not looked at any further
FormatSwitchAnyRegular(base, parent) ==
    IF base = S_ptr THEN PTRFormat
    ELSE IF base = S_annual THEN AnnualFormat
    ELSE IF base = S_paper THEN PaperFormat
    ELSE IF base = S_regular THEN DueDateExtensionFormat
    ELSE UnknownFormat

\* the switch of URLToReportFormat, on base = path.Base(dir) and
\* parent = path.Base(path.Dir(dir))
FormatSwitch(base, parent) ==
    IF base = S_ptr THEN PTRFormat
    ELSE IF base = S_annual THEN AnnualFormat
    ELSE IF base = S_paper THEN PaperFormat
    ELSE IF base = S_regular /\ parent = S_extension THEN DueDateExtensionFormat
    ELSE UnknownFormat

FormatOfDir(dir) == FormatSwitch(FormatSegment(dir), ParentSegment(dir))

\* DirOf with the id cut off by a single path.Dir
DirOfOnce(sp) == IF sp.file = <<>> THEN PathDir(sp.dir) ELSE sp.dir

\* dir after "if file == "" { dir = path.Dir(path.Dir(dir)) }"
DirOf(sp) == IF sp.file = <<>> THEN PathDir(PathDir(sp.dir)) ELSE sp.dir

\* URLToReportFormat(link), given link.Path
URLToReportFormat(p) == FormatOfDir(DirOf(PathSplit(p)))

(***************************************************************************)
(* State.                                                                  *)
(***************************************************************************)
VARIABLES
    authed,     \* EFDClient.authed
    jar,        \* EFDClient.jar / EFDClient.client: the cookie store in use
    pc,         \* position of each caller in the method it runs
    loc,        \* the locals of the method each caller runs
    ret,        \* what the last method a caller ran returned
    link,       \* the URL path handed to URLToReportFormat
    format,     \* the ReportFormat it returned, "none" before the call
    input,      \* the document, cell or report handed to an extraction or to ReportToJson
    output,     \* what that call returned, NoOutput before the call
    rng         \* the source of math/rand that genCSRFToken draws from

vars == <<authed, jar, pc, loc, ret, link, format, input, output, rng>>

\* the client is used by one caller, one method at a time
Callers == {"main"}

(***************************************************************************)
(* Inputs of URLToReportFormat: a path is written from its segments, with  *)
(* or without a leading and a trailing slash.  The empty segment gives a   *)
(* doubled slash, ".." a parent reference.                                  *)
(***************************************************************************)
S_id == <<"x">>

SegNames == {S_ptr, S_annual, S_paper, S_regular, S_extension, S_view, S_id, S_dotdot, <<>>}

SeqsUpTo(S, n) == UNION {[1..k -> S] : k \in 0..n}

PathInputs == [segs : SeqsUpTo(SegNames, MaxSegs), lead : BOOLEAN, trail : BOOLEAN]

PathOf(in) ==
    (IF in.lead THEN <<Slash>> ELSE <<>>) \o JoinSlash(in.segs)
        \o (IF in.trail THEN <<Slash>> ELSE <<>>)

(***************************************************************************)
(* Strings of the search rows: strings.ToLower, time.Parse, url.Parse,     *)
(* URL.ResolveReference, strings.Replace.                                   *)
(***************************************************************************)
UpperChars == <<"A", "B", "C", "D", "E", "F", "G", "H", "I", "J", "K", "L", "M",
                "N", "O", "P", "Q", "R", "S", "T", "U", "V", "W", "X", "Y", "Z">>
LowerChars == <<"a", "b", "c", "d", "e", "f", "g", "h", "i", "j", "k", "l", "m",
                "n", "o", "p", "q", "r", "s", "t", "u", "v", "w", "x", "y", "z">>
Digits == <<"0", "1", "2", "3", "4", "5", "6", "7", "8", "9">>

IsUpper(c) == \E i \in 1..Len(UpperChars) : UpperChars[i] = c
IsDigit(c) == \E i \in 1..Len(Digits) : Digits[i] = c
DigitVal(c) == (CHOOSE i \in 1..Len(Digits) : Digits[i] = c) - 1

\* strings.ToLower
ToLower(s) ==
    [i \in 1..Len(s) |->
        IF IsUpper(s[i]) THEN LowerChars[CHOOSE k \in 1..Len(UpperChars) : UpperChars[k] = s[i]]
        ELSE s[i]]

\* days of a month, as time.Parse checks the day against them
DaysIn(m, y) ==
    IF m = 2
    THEN IF y % 4 = 0 /\ (y % 100 # 0 \/ y % 400 = 0) THEN 29 ELSE 28
    ELSE IF m \in {4, 6, 9, 11} THEN 30 ELSE 31

\* time.Time{}
ZeroTime == [y |-> 1, m |-> 1, d |-> 1]

\* time.Parse("01/02/2006", s), the default c.dateLayout: two digits of month,
\* two of day and four of year between slashes, nothing after them, the month
\* and the day in range.  An error leaves the zero time.
ParseDate(s) ==
    IF /\ Len(s) = 10
       /\ s[3] = Slash /\ s[6] = Slash
       /\ \A i \in {1, 2, 4, 5, 7, 8, 9, 10} : IsDigit(s[i])
    THEN LET m == 10 * DigitVal(s[1]) + DigitVal(s[2])
             d == 10 * DigitVal(s[4]) + DigitVal(s[5])
             y == 1000 * DigitVal(s[7]) + 100 * DigitVal(s[8]) + 10 * DigitVal(s[9])
                    + DigitVal(s[10])
         IN IF m \in 1..12 /\ d >= 1 /\ d <= DaysIn(m, y)
            THEN [err |-> FALSE, t |-> [y |-> y, m |-> m, d |-> d]]
            ELSE [err |-> TRUE, t |-> ZeroTime]
    ELSE [err |-> TRUE, t |-> ZeroTime]

(***************************************************************************)
(* Markup.  A fragment is a sequence whose elements are characters and     *)
(* tags; the opening tag of an anchor is "<a" or "<a href=" followed by    *)
(* the characters of the attribute value, and ends at ">".                 *)
(***************************************************************************)
AOpen == "<a"
AOpenHref == "<a href="
TagEnd == ">"
AClose == "</a>"
BOpen == "<b>"
BClose == "</b>"

IsTag(c) == c \in {AOpen, AOpenHref, TagEnd, AClose, BOpen, BClose}

\* index of the first element of s from position i on that satisfies Test, 0 when none
FirstFrom(s, i, Test(_)) ==
    IF \E k \in i..Len(s) : Test(s[k])
    THEN CHOOSE k \in i..Len(s) : Test(s[k]) /\ \A j \in i..(k - 1) : ~Test(s[j])
    ELSE 0

\* the characters of s that are no tags
RECURSIVE TextOf(_)
TextOf(s) ==
    IF Len(s) = 0 THEN <<>>
    ELSE IF IsTag(Head(s)) THEN TextOf(Tail(s)) ELSE <<Head(s)>> \o TextOf(Tail(s))

\* parseAnchor: the href and the text of the first anchor of the fragment; both
\* are empty when there is none.  The HTML parser accepts every string, so the
\* error return is never taken.
IsAnchorOpen(c) == c \in {AOpen, AOpenHref}
IsTagEnd(c) == c = TagEnd
IsAnchorClose(c) == c = AClose

\* an index found by FirstFrom, the end of the fragment when it found none
OrEnd(tag, i) == IF i = 0 THEN Len(tag) + 1 ELSE i

\* the anchor that opens at a, whose opening tag ends at e and that closes at c
AnchorData(tag, a, e, c) ==
    [err |-> FALSE,
     HREF |-> IF tag[a] = AOpenHref THEN SubSeq(tag, a + 1, e - 1) ELSE <<>>,
     Text |-> TextOf(SubSeq(tag, e + 1, c - 1))]

AnchorFrom(tag, a, e) == AnchorData(tag, a, e, OrEnd(tag, FirstFrom(tag, e + 1, IsAnchorClose)))

AnchorAt(tag, a) ==
    IF a = 0 THEN [err |-> FALSE, HREF |-> <<>>, Text |-> <<>>]
    ELSE AnchorFrom(tag, a, OrEnd(tag, FirstFrom(tag, a + 1, IsTagEnd)))

parseAnchor(tag) == AnchorAt(tag, FirstFrom(tag, 1, IsAnchorOpen))

(***************************************************************************)
(* URLs.  A *url.URL is a record of Scheme, Host and Path.  The hrefs of   *)
(* the model hold no scheme, query or fragment and no "." element.         *)
(***************************************************************************)
Nil == [nil |-> TRUE]

S_https == <<"h", "t", "t", "p", "s">>
S_host == <<"e", "f", "d", "s", "e", "a", "r", "c", "h", ".", "s", "e", "n", "a", "t", "e",
            ".", "g", "o", "v">>

\* c.baseURL, url.Parse("https://efdsearch.senate.gov")
baseURL == [Scheme |-> S_https, Host |-> S_host, Path |-> <<>>]

HexChars == {"0", "1", "2", "3", "4", "5", "6", "7", "8", "9",
             "a", "b", "c", "d", "e", "f", "A", "B", "C", "D", "E", "F"}

\* url.Parse: a "%" that two hex digits do not follow is an error; "//" opens
\* the host, which ends at the next slash
UrlParse(s) ==
    IF \E i \in 1..Len(s) :
          s[i] = "%" /\ ~(i + 2 <= Len(s) /\ s[i + 1] \in HexChars /\ s[i + 2] \in HexChars)
    THEN [err |-> TRUE, url |-> Nil]
    ELSE IF Len(s) >= 2 /\ s[1] = Slash /\ s[2] = Slash
         THEN LET rest == Drop(s, 2)
                  i == FirstSlash(rest)
              IN [err |-> FALSE,
                  url |-> [Scheme |-> <<>>,
                           Host |-> IF i = 0 THEN rest ELSE Take(rest, i - 1),
                           Path |-> IF i = 0 THEN <<>> ELSE Drop(rest, i - 1)]]
         ELSE [err |-> FALSE, url |-> [Scheme |-> <<>>, Host |-> <<>>, Path |-> s]]

\* the elements resolvePath keeps: ".." removes the one before it
RECURSIVE ResolveSegs(_, _)
ResolveSegs(segs, out) ==
    IF Len(segs) = 0 THEN out
    ELSE IF Head(segs) = S_dotdot
         THEN ResolveSegs(Tail(segs), IF Len(out) = 0 THEN out ELSE Take(out, Len(out) - 1))
         ELSE ResolveSegs(Tail(segs), Append(out, Head(segs)))

\* the end of resolvePath: one of two leading slashes is dropped
DropDoubledSlash(r) == IF Len(r) > 1 /\ r[2] = Slash THEN Tail(r) ELSE r

\* the elements of the full path written out behind a slash
ResolveJoin(segs) ==
    <<Slash>> \o JoinSlash(ResolveSegs(segs, <<>>))
        \o (IF segs[Len(segs)] = S_dotdot THEN <<Slash>> ELSE <<>>)

ResolveFull(full) ==
    IF Len(full) = 0 THEN <<>> ELSE DropDoubledSlash(ResolveJoin(SplitSlash(full)))

\* resolvePath(base, ref) of net/url
resolvePath(base, ref) ==
    ResolveFull(IF Len(ref) = 0 THEN base
                ELSE IF ref[1] # Slash THEN Take(base, LastSlash(base)) \o ref
                ELSE ref)

\* URL.ResolveReference: a new URL
ResolveReference(u, ref) ==
    IF ref.Scheme # <<>> \/ ref.Host # <<>>
    THEN [Scheme |-> IF ref.Scheme = <<>> THEN u.Scheme ELSE ref.Scheme,
          Host |-> ref.Host,
          Path |-> resolvePath(ref.Path, <<>>)]
    ELSE [Scheme |-> u.Scheme, Host |-> u.Host, Path |-> resolvePath(u.Path, ref.Path)]

\* s has pre as a prefix at position i
MatchAt(s, pre, i) == i + Len(pre) - 1 <= Len(s) /\ SubSeq(s, i, i + Len(pre) - 1) = pre

\* strings.Replace(s, old, new, 1): the first occurrence of old, old not empty
ReplaceFirst(s, old, new) ==
    IF \E i \in 1..Len(s) : MatchAt(s, old, i)
    THEN LET i == CHOOSE k \in 1..Len(s) :
                     MatchAt(s, old, k) /\ \A j \in 1..(k - 1) : ~MatchAt(s, old, j)
         IN Take(s, i - 1) \o new \o Drop(s, i + Len(old) - 1)
    ELSE s

(***************************************************************************)
(* SearchResult and the rows of a search page.                             *)
(***************************************************************************)
\* the zero SearchResult of make([]SearchResult, n); ReportFormat 0 is AnnualFormat
ZeroResult ==
    [FirstName |-> <<>>, LastName |-> <<>>, FullName |-> <<>>, FileURL |-> Nil,
     ReportName |-> <<>>, ReportFormat |-> AnnualFormat, ReportID |-> <<>>,
     DateSubmitted |-> ZeroTime, Valid |-> FALSE]

\* the rewrite of a paper copy's path
PaperPath(path) == ReplaceFirst(path, S_view, S_print)

\* RowLenOK when only the rows that are too short are turned away
RowLenAtLeast(row) == Len(row) >= 5

\* the length test of a row
RowLenOK(row) == Len(row) = 5

\* the SearchResult of a row the loop stops at after it has read the date
Stopped(date) == [res |-> [ZeroResult EXCEPT !.DateSubmitted = date.t], brk |-> TRUE]

\* the end of the loop body: the fields are set and Valid with them
RowResult(row, date, anchor, fmt, fileURL) ==
    [res |-> [FirstName |-> ToLower(row[1]),
              LastName |-> ToLower(row[2]),
              FullName |-> ToLower(row[3]),
              FileURL |-> fileURL,
              ReportName |-> anchor.Text,
              ReportFormat |-> fmt,
              ReportID |-> PathBase(fileURL.Path),
              DateSubmitted |-> date.t,
              Valid |-> TRUE],
     brk |-> FALSE]

\* RewrittenURL when the path is rewritten whatever the format
RewrittenURLAlways(resolved, fmt) == [resolved EXCEPT !.Path = PaperPath(resolved.Path)]

\* sResult.FileURL after the rewrite of a paper copy
RewrittenURL(resolved, fmt) ==
    IF fmt = PaperFormat THEN [resolved EXCEPT !.Path = PaperPath(resolved.Path)] ELSE resolved

RowFormatted(row, date, anchor, resolved, fmt) ==
    RowResult(row, date, anchor, fmt, RewrittenURL(resolved, fmt))

RowResolved(row, date, anchor, resolved) ==
    RowFormatted(row, date, anchor, resolved, URLToReportFormat(resolved.Path))

RowWithURL(row, date, anchor, docURL) ==
    IF docURL.err THEN Stopped(date)
    ELSE RowResolved(row, date, anchor, ResolveReference(baseURL, docURL.url))

RowWithAnchor(row, date, anchor) ==
    IF anchor.err \/ anchor.HREF = <<>> THEN Stopped(date)
    ELSE RowWithURL(row, date, anchor, UrlParse(anchor.HREF))

RowWithDate(row, date) ==
    IF date.err THEN Stopped(date) ELSE RowWithAnchor(row, date, parseAnchor(row[4]))

\* the body of the loop over results.Data for one row: the SearchResult it
\* leaves in searchResults[i], and whether the loop breaks at it
ParseRow(row) ==
    IF ~RowLenOK(row) THEN [res |-> ZeroResult, brk |-> TRUE]
    ELSE RowWithDate(row, ParseDate(row[5]))

(***************************************************************************)
(* What the portal can answer.                                             *)
(***************************************************************************)
N_Jo == <<"J", "o">>
N_Doe == <<"D", "O", "E">>
N_JoDoe == <<"J", "o", " ", "D", "O", "E">>
N_al == <<"a", "l">>
T_PTR == <<"P", "T", "R">>
D_ok == <<"0", "1", "/", "0", "2", "/", "2", "0", "2", "0">>
D_leap == <<"0", "2", "/", "2", "9", "/", "2", "0", "2", "0">>
D_bad == <<"0", "2", "/", "3", "0", "/", "2", "0", "2", "0">>

DirPath(segs) == <<Slash>> \o JoinSlash(segs) \o <<Slash>>

H_ptr == DirPath(<<S_search, S_view, S_ptr, S_id>>)
H_paper == DirPath(<<S_search, S_view, S_paper, S_id>>)
H_annual == DirPath(<<S_search, S_view, S_annual, S_id>>)
H_bad == <<"%", "z", "z">>
\* a relative reference
H_ptrRel == JoinSlash(<<S_search, S_view, S_ptr, S_id>>) \o <<Slash>>

Anchor(href, text) == <<AOpenHref>> \o href \o <<TagEnd>> \o text \o <<AClose>>
AnchorNoHref(text) == <<AOpen, TagEnd>> \o text \o <<AClose>>

RowPTR == <<N_Jo, N_Doe, N_JoDoe, Anchor(H_ptrRel, T_PTR), D_ok>>
RowPaper == <<N_al, N_al, N_al, <<BOpen>> \o Anchor(H_paper, N_al) \o <<BClose>>, D_leap>>
RowShort == <<N_Jo, N_Doe, Anchor(H_ptr, T_PTR), D_ok>>
RowBadDate == <<N_Jo, N_Doe, N_JoDoe, Anchor(H_ptr, T_PTR), D_bad>>
RowNoHref == <<N_Jo, N_Doe, N_JoDoe, AnchorNoHref(T_PTR), D_ok>>
RowBadURL == <<N_Jo, N_Doe, N_JoDoe, Anchor(H_bad, T_PTR), D_ok>>
RowLong == <<N_Jo, N_Doe, N_JoDoe, Anchor(H_ptr, T_PTR), D_ok, D_ok>>

\* the rows a search page is made of
Rows == {RowPTR, RowPaper, RowShort, RowLong, RowBadDate, RowNoHref, RowBadURL}

\* the loop body on each of the rows the portal serves
LoopBodies == {[row |-> row, body |-> ParseRow(row)] : row \in Rows}

\* the loop body on a row
LoopBody(row) ==
    IF row \in Rows THEN (CHOOSE b \in LoopBodies : b.row = row).body ELSE ParseRow(row)

\* what the loop does with the rows after one at which it stopped: break
\* leaves their SearchResults zero
AfterBreak(rest) == [i \in 1..Len(rest) |-> ZeroResult]

RECURSIVE ParseRows(_)

\* searchResults from a row on, r being what the loop body made of that row
RowsFrom(r, rest) == <<r.res>> \o (IF r.brk THEN AfterBreak(rest) ELSE ParseRows(rest))

\* searchResults after the loop over results.Data
ParseRows(data) ==
    IF Len(data) = 0 THEN <<>> ELSE RowsFrom(LoopBody(Head(data)), Tail(data))

\* FilterValid without the test of Valid
KeepAll(rs) == rs

\* the records with Valid set, in order
RECURSIVE FilterValid(_)
FilterValid(rs) ==
    IF Len(rs) = 0 THEN <<>>
    ELSE IF Head(rs).Valid THEN <<Head(rs)>> \o FilterValid(Tail(rs))
    ELSE FilterValid(Tail(rs))

\* const length int = 100 of SearchReportData
length == 100

\* the record counts the endpoint reports: the multiples of the page size up
\* to MaxPages pages, and one more than each
RecordTotals == {k * length : k \in 0..MaxPages} \cup {k * length + 1 : k \in 0..(MaxPages - 1)}

\* the answers to a page request: a transport error, a content type other than
\* application/json, a body that does not decode, a result other than "ok",
\* or a page of rows
SearchResponses(total) ==
    {[kind |-> k, RecordsTotal |-> 0, Data |-> <<>>] :
        k \in {"transportErr", "notJSON", "badBody", "notOK"}}
    \cup {[kind |-> "ok", RecordsTotal |-> total, Data |-> d] : d \in SeqsUpTo(Rows, MaxRows)}

\* the form fields of the home page
FieldToken == [name |-> "csrfmiddlewaretoken", hasValue |-> TRUE, value |-> "tok"]
FieldEmpty == [name |-> "csrfmiddlewaretoken", hasValue |-> TRUE, value |-> ""]
FieldNoValue == [name |-> "csrfmiddlewaretoken", hasValue |-> FALSE, value |-> ""]
FieldOther == [name |-> "prohibition_agreement", hasValue |-> TRUE, value |-> "1"]

HomePages == {<<>>, <<FieldOther>>, <<FieldToken>>, <<FieldOther, FieldToken>>,
              <<FieldEmpty, FieldToken>>, <<FieldNoValue>>}

\* the answers to the GET of the home page; a response of status 200 sets
\* the csrftoken cookie
HomeResponses ==
    {[kind |-> "transportErr", status |-> 0, page |-> <<>>],
     [kind |-> "bodyErr", status |-> 200, page |-> <<>>],
     [kind |-> "ok", status |-> 403, page |-> <<FieldToken>>]}
    \cup {[kind |-> "ok", status |-> 200, page |-> pg] : pg \in HomePages}

\* the answers to the POST of the agreement; a response of status 200 sets
\* the session cookie
PostResponses ==
    {[kind |-> "transportErr", status |-> 0]}
    \cup {[kind |-> "ok", status |-> st] : st \in {200, 403, 500}}

(***************************************************************************)
(* Documents: the cells of the tables and the three extraction levels.     *)
(***************************************************************************)
IsSpace(c) == c \in {" ", "\n", "\t"}

\* strings.TrimSpace
RECURSIVE TrimLeft(_)
TrimLeft(s) == IF Len(s) > 0 /\ IsSpace(s[1]) THEN TrimLeft(Tail(s)) ELSE s

RECURSIVE TrimRight(_)
TrimRight(s) == IF Len(s) > 0 /\ IsSpace(s[Len(s)]) THEN TrimRight(Take(s, Len(s) - 1)) ELSE s

TrimSpace(s) == TrimRight(TrimLeft(s))

\* ReplaceAllString of \s+ by one space
RECURSIVE CollapseSpace(_)
CollapseSpace(s) ==
    IF Len(s) = 0 THEN <<>>
    ELSE IF IsSpace(s[1])
         THEN <<" ">> \o CollapseSpace(TrimLeft(s))
         ELSE <<s[1]>> \o CollapseSpace(Tail(s))

\* ReplaceAllString of <.*?> by one space: an opening tag goes with its
\* attribute up to the ">" that ends it
RECURSIVE ReplaceTags(_)
ReplaceTags(s) ==
    IF Len(s) = 0 THEN <<>>
    ELSE IF s[1] \in {AOpen, AOpenHref}
         THEN LET IsEnd(c) == c = TagEnd
                  e == FirstFrom(s, 2, IsEnd)
              IN IF e = 0 THEN <<s[1]>> \o ReplaceTags(Tail(s))
                 ELSE <<" ">> \o ReplaceTags(Drop(s, e))
         ELSE IF s[1] \in {AClose, BOpen, BClose} THEN <<" ">> \o ReplaceTags(Tail(s))
         ELSE <<s[1]>> \o ReplaceTags(Tail(s))

\* trimHTMLSelection, stripHTMLSelection, removeHTMLSelection on the inner
\* markup of the selection; rendering the markup does not fail
trimHTMLSelection(cell) == TrimSpace(cell)
stripHTMLSelection(cell) == CollapseSpace(trimHTMLSelection(cell))
removeHTMLSelection(cell) == CollapseSpace(TrimSpace(ReplaceTags(cell)))

ZeroTransaction ==
    [Date |-> ZeroTime, Owner |-> <<>>, Ticker |-> <<>>, AssetName |-> <<>>,
     AssetType |-> <<>>, Type |-> <<>>, Amount |-> <<>>, Comment |-> <<>>, Valid |-> FALSE]

S_dashes == <<"-", "-">>

\* the ticker cell that is no "--": the text of its anchor
TickerAnchor(tr, anchor) ==
    IF anchor.err \/ anchor.Text = <<>> THEN [ok |-> FALSE, tr |-> tr]
    ELSE [ok |-> TRUE, tr |-> [tr EXCEPT !.Ticker = anchor.Text]]

\* TickerCell without the test for "--"
TickerCellAlwaysAnchor(tr, tString) == TickerAnchor(tr, parseAnchor(tString))

TickerCell(tr, tString) ==
    IF tString = S_dashes THEN [ok |-> TRUE, tr |-> [tr EXCEPT !.Ticker = tString]]
    ELSE TickerAnchor(tr, parseAnchor(tString))

DateCell(tr, d) == [ok |-> ~d.err, tr |-> [tr EXCEPT !.Date = d.t]]

\* the cells read with removeHTMLSelection, tString being what it returned
TextCell(tr, tString, ct) ==
    IF ct = "trDateCell" THEN DateCell(tr, ParseDate(tString))
    ELSE IF ct = "ownerCell" THEN [ok |-> TRUE, tr |-> [tr EXCEPT !.Owner = tString]]
    ELSE IF ct = "assetNameCell" THEN [ok |-> TRUE, tr |-> [tr EXCEPT !.AssetName = tString]]
    ELSE IF ct = "assetTypeCell" THEN [ok |-> TRUE, tr |-> [tr EXCEPT !.AssetType = tString]]
    ELSE IF ct = "trTypeCell" THEN [ok |-> TRUE, tr |-> [tr EXCEPT !.Type = tString]]
    ELSE IF ct = "amountCell" THEN [ok |-> TRUE, tr |-> [tr EXCEPT !.Amount = tString]]
    ELSE [ok |-> TRUE, tr |-> [tr EXCEPT !.Comment = tString]]

TextCells ==
    {"trDateCell", "ownerCell", "assetNameCell", "assetTypeCell", "trTypeCell", "amountCell",
     "commentCell"}

\* handleTransactionCell: the transaction after the cell, and the bool returned
handleTransactionCell(tr, cell, ct) ==
    IF ct = "tickerCell" THEN TickerCell(tr, stripHTMLSelection(cell))
    ELSE IF ct \in TextCells THEN TextCell(tr, removeHTMLSelection(cell), ct)
    ELSE IF ct = "validCell" THEN [ok |-> TRUE, tr |-> [tr EXCEPT !.Valid = TRUE]]
    ELSE [ok |-> TRUE, tr |-> tr]

\* the switch on the column of each table: the cell type read in columns 0..8
\* (no case for a column: nothing is read)
PTRLayout ==
    <<"none", "trDateCell", "ownerCell", "tickerCell", "assetNameCell", "assetTypeCell",
      "trTypeCell", "amountCell", "commentCell">>
Part4aLayout ==
    <<"none", "none", "trDateCell", "ownerCell", "tickerCell", "assetNameCell",
      "trTypeCell", "amountCell", "commentCell">>
\* Part4bLayout with the date before the owner, as in Part 4a
Part4bLayoutDateFirst ==
    <<"none", "none", "trDateCell", "ownerCell", "tickerCell", "assetNameCell",
      "trTypeCell", "amountCell", "commentCell">>
Part4bLayout ==
    <<"none", "none", "ownerCell", "tickerCell", "assetNameCell", "trTypeCell",
      "trDateCell", "amountCell", "commentCell">>

\* tds.EachWithBreak from cell j on: it stops at the first cell that returns
\* false; the last column sets Valid after its comment
RECURSIVE EachCell(_, _, _, _)

\* AfterCell when EachWithBreak goes on after a cell that returned false
AfterCellNoBreak(r, tds, layout, j) ==
    IF j = 9 THEN handleTransactionCell(r.tr, tds[j], "validCell").tr
    ELSE EachCell(r.tr, tds, layout, j + 1)

\* what follows cell j, r being what handleTransactionCell made of it
AfterCell(r, tds, layout, j) ==
    IF ~r.ok THEN r.tr
    ELSE IF j = 9 THEN handleTransactionCell(r.tr, tds[j], "validCell").tr
    ELSE EachCell(r.tr, tds, layout, j + 1)

EachCell(tr, tds, layout, j) ==
    IF j > Len(tds) THEN tr
    ELSE AfterCell(handleTransactionCell(tr, tds[j], layout[j]), tds, layout, j)

\* the function given to trs.Each: a row that has not 9 cells is left zero
TableRow(tds, layout) ==
    IF Len(tds) # 9 THEN ZeroTransaction ELSE EachCell(ZeroTransaction, tds, layout, 1)

\* TableRows when trs.Each stops at the first row that is left without Valid
TableRowsUntilInvalid(trs, layout) ==
    [i \in 1..Len(trs) |->
        IF \E k \in 1..(i - 1) : ~TableRow(trs[k], layout).Valid
        THEN ZeroTransaction ELSE TableRow(trs[i], layout)]

\* the transactions slice after trs.Each
TableRows(trs, layout) == [i \in 1..Len(trs) |-> TableRow(trs[i], layout)]

\* the document of a digital PTR is the sequence of the rows of its table
PTRTransactions(doc) == FilterValid(TableRows(doc, PTRLayout))

S_title4a == "Part 4a. Periodic Transaction Report Summary"
S_title4b == "Part 4b. Transactions"

\* the document of an Annual report is the sequence of its headings, each with
\* the rows of the table of its section; hdrs.Each assigns ptrTransactions at a
\* 4a heading and regTransactions at a 4b heading
RECURSIVE AnnualSections(_, _, _)
AnnualSections(hdrs, ptrT, regT) ==
    IF Len(hdrs) = 0 THEN [ptr |-> ptrT, reg |-> regT]
    ELSE LET h == Head(hdrs)
         IN IF h.title = S_title4a
            THEN AnnualSections(Tail(hdrs), TableRows(h.rows, Part4aLayout), regT)
            ELSE IF h.title = S_title4b
                 THEN AnnualSections(Tail(hdrs), ptrT, TableRows(h.rows, Part4bLayout))
                 ELSE AnnualSections(Tail(hdrs), ptrT, regT)

\* TotalTransactions with the rows of Part 4b in front
TotalTransactionsRegFirst(secs) == secs.reg \o secs.ptr

\* totalTransactions = append(ptrTransactions, regTransactions...)
TotalTransactions(secs) == secs.ptr \o secs.reg

AnnualTransactions(doc) == FilterValid(TotalTransactions(AnnualSections(doc, <<>>, <<>>)))

\* the document of a paper report is the sequence of its img.filingImage
\* elements; PageURLs has one entry for each, nil where the src is missing
\* or does not parse
PageOf(u) == IF u.err THEN Nil ELSE u.url

PageURL(img) == IF ~img.hasSrc THEN Nil ELSE PageOf(UrlParse(img.src))

PaperPages(doc) == [i \in 1..Len(doc) |-> PageURL(doc[i])]

(***************************************************************************)
(* The client.  A caller runs one method at a time; pc is its position in  *)
(* it, loc the method's locals.  reqs (in loc) lists the requests the call *)
(* has sent, each with the HTTP client it went through, the value of       *)
(* authed and the cookies of the jar at that moment, and the answer (of a  *)
(* search page: its record count and the number of results made of it).    *)
(* origin (in loc) lists, for a search, the rows that were marked Valid,   *)
(* each with its page and its index in the page; parsable holds the        *)
(* indices of the rows of the last page that pass every test of the loop   *)
(* body, odd the element counts other than 5 among the rows of that page.  *)
(***************************************************************************)
NoLoc ==
    [op |-> "none", handler |-> "none", after |-> "none", csrftoken |-> "", start |-> 0, remainder |-> 0,
     finalResults |-> <<>>, total |-> 0, parsable |-> {}, odd |-> {}, results |-> <<>>, origin |-> <<>>,
     reqs |-> <<>>, result |-> ZeroResult, wrapped |-> FALSE]

NoRet ==
    [op |-> "none", caller |-> "none", err |-> FALSE, val |-> <<>>, reqs |-> <<>>,
     result |-> ZeroResult, origin |-> <<>>]

Request(kind, via, path, start, resp) ==
    [kind |-> kind, via |-> via, authed |-> authed,
     cookies |-> IF via = "session" THEN jar ELSE {}, path |-> path, start |-> start,
     resp |-> resp]

\* c.homeURL, c.searchDataURL
homePath == DirPath(<<S_search, <<"h", "o", "m", "e">> >>)
searchDataPath == DirPath(<<S_search, <<"r", "e", "p", "o", "r", "t">>, <<"d", "a", "t", "a">> >>)

AllIdle == \A u \in Callers : pc[u] = "idle"

\* the call of t returns
Return(t, err, val, reqs, result) ==
    /\ pc' = [pc EXCEPT ![t] = "idle"]
    /\ loc' = [loc EXCEPT ![t] = NoLoc]
    /\ ret' = [op |-> loc[t].op, caller |-> t, err |-> err, val |-> val, reqs |-> reqs,
               result |-> result, origin |-> loc[t].origin]

\* initParam: what CreateEFDClient leaves
InitClient ==
    /\ authed = FALSE
    /\ jar = {}
    /\ pc = [t \in Callers |-> "idle"]
    /\ loc = [t \in Callers |-> NoLoc]
    /\ ret = NoRet

(***************************************************************************)
(* AcceptDisclaimer.                                                       *)
(***************************************************************************)
\* the value parseCSRFToken reads in the page: that of the first field named
\* csrfmiddlewaretoken, empty when there is none or it has no value
TokenOf(page) ==
    LET IsCsrf(f) == f.name = "csrfmiddlewaretoken"
        i == FirstFrom(page, 1, IsCsrf)
    IN IF i = 0 THEN "" ELSE IF page[i].hasValue THEN page[i].value ELSE ""

\* parseCSRFToken without the test of the empty token
parseCSRFTokenAnyValue(resp) ==
    IF resp.kind = "transportErr" THEN [err |-> TRUE, csrftoken |-> ""]
    ELSE IF resp.status # 200 THEN [err |-> TRUE, csrftoken |-> ""]
    ELSE IF resp.kind = "bodyErr" THEN [err |-> TRUE, csrftoken |-> ""]
    ELSE [err |-> FALSE, csrftoken |-> TokenOf(resp.page)]

\* parseCSRFToken(c.homeURL) on the answer resp
parseCSRFToken(resp) ==
    IF resp.kind = "transportErr" THEN [err |-> TRUE, csrftoken |-> ""]
    ELSE IF resp.status # 200 THEN [err |-> TRUE, csrftoken |-> ""]
    ELSE IF resp.kind = "bodyErr" THEN [err |-> TRUE, csrftoken |-> ""]
    ELSE IF TokenOf(resp.page) = "" THEN [err |-> TRUE, csrftoken |-> ""]
    ELSE [err |-> FALSE, csrftoken |-> TokenOf(resp.page)]

\* what the wrapping HandleResult returns when its handler fails
ErrVal(t) ==
    LET none == IF loc[t].handler = "HandlePaperSearchResult" THEN [PageURLs |-> <<>>] ELSE <<>>
    IN IF loc[t].wrapped
       THEN [ReportFormat |-> loc[t].result.ReportFormat,
             Transactions |-> <<>>,
             Pages |-> [PageURLs |-> <<>>]]
       ELSE none

StartAcceptDisclaimer(t) ==
    /\ pc[t] = "idle"
    /\ pc' = [pc EXCEPT ![t] = "ad_get"]
    /\ loc' = [loc EXCEPT ![t] = [NoLoc EXCEPT !.op = "AcceptDisclaimer", !.after = "return"]]
    /\ ret' = NoRet
    /\ UNCHANGED <<authed, jar, link, format, input, output, rng>>

\* the first half of AcceptDisclaimer: the GET of the home page in parseCSRFToken
AcceptDisclaimerGet(t) ==
    /\ pc[t] = "ad_get"
    /\ \E resp \in HomeResponses :
        LET tok == parseCSRFToken(resp)
            reqs == Append(loc[t].reqs, Request("homeGET", "session", homePath, 0, resp))
        IN /\ jar' = IF resp.kind # "transportErr" /\ resp.status = 200
                     THEN jar \cup {"csrftoken"} ELSE jar
           /\ IF tok.err
              THEN Return(t, TRUE, ErrVal(t), reqs, loc[t].result)
              ELSE /\ pc' = [pc EXCEPT ![t] = "ad_post"]
                   /\ loc' = [loc EXCEPT ![t].csrftoken = tok.csrftoken, ![t].reqs = reqs]
                   /\ ret' = ret
    /\ UNCHANGED <<authed, link, format, input, output, rng>>

\* PostAccepted when the status of the answer is looked at as well
PostAcceptedOK(resp) == resp.kind # "transportErr" /\ resp.status = 200

\* whether AcceptDisclaimer sets authed after the POST answered by resp
PostAccepted(resp) == resp.kind # "transportErr"

\* the second half: the POST of the agreement, then c.authed = true
AcceptDisclaimerPost(t) ==
    /\ pc[t] = "ad_post"
    /\ \E resp \in PostResponses :
        LET reqs == Append(loc[t].reqs, Request("homePOST", "session", homePath, 0, resp))
        IN /\ jar' = IF resp.kind # "transportErr" /\ resp.status = 200
                     THEN jar \cup {"sessionid"} ELSE jar
           /\ IF ~PostAccepted(resp)
              THEN /\ Return(t, TRUE, ErrVal(t), reqs, loc[t].result)
                   /\ authed' = authed
              ELSE /\ authed' = TRUE
                   /\ IF loc[t].after = "return"
                      THEN Return(t, FALSE, <<>>, reqs, loc[t].result)
                      ELSE /\ pc' = [pc EXCEPT ![t] = loc[t].after]
                           /\ loc' = [loc EXCEPT ![t].reqs = reqs]
                           /\ ret' = ret
    /\ UNCHANGED <<link, format, input, output, rng>>

\* clearClient: a new jar and a new http.Client; authed is not touched
clearClient(t) ==
    /\ pc[t] = "idle"
    /\ jar' = {}
    /\ UNCHANGED <<authed, pc, loc, ret, link, format, input, output, rng>>

(***************************************************************************)
(* SearchReportData.                                                       *)
(***************************************************************************)
\* the HTTP client the page request goes through: http.DefaultClient, which
\* has no cookie jar
SearchClient == "default"

\* searchReportDataPaged with a remainder that does not count the page read
PagedRemainderFromStart(resp, start) ==
    IF resp.kind # "ok"
    THEN [err |-> TRUE, results |-> <<>>, remainder |-> 0]
    ELSE [err |-> FALSE,
          results |-> FilterValid(ParseRows(resp.Data)),
          remainder |-> resp.RecordsTotal - start]

\* searchReportDataPaged on the answer resp: the filtered results, the
\* remainder and the error
searchReportDataPaged(resp, start) ==
    IF resp.kind # "ok"
    THEN [err |-> TRUE, results |-> <<>>, remainder |-> 0]
    ELSE [err |-> FALSE,
          results |-> FilterValid(ParseRows(resp.Data)),
          remainder |-> resp.RecordsTotal - start - length]

\* b := make([]rune, 64) of genCSRFToken
tokenLength == 64

\* var csrfCharset
csrfCharset == LowerChars \o UpperChars \o Digits

\* math/rand: the numbers of the package source are a fixed sequence, which
\* here repeats after SourcePeriod numbers; the source is known by how far in
\* the sequence it stands
SourcePeriod == 2 * tokenLength

\* where the source stands when a search starts: other draws of the program
\* may have advanced it
SourceStarts == {0, tokenLength}

\* the k-th number of the sequence
SourceNumber(k) == k * k * 17 + k * 7 + 3

\* rand.Intn(n), as the i-th call from the source standing at r
Intn(r, i, n) == SourceNumber((r + i) % SourcePeriod) % n

\* the runes of the loop of genCSRFToken, drawn from the source standing at r
TokenDrawn(r) == [i \in 1..tokenLength |-> csrfCharset[Intn(r, i, Len(csrfCharset)) + 1]]

\* genCSRFToken when the token is generated once and kept
genCSRFTokenKept(r) == [token |-> TokenDrawn(0), rng |-> r]

\* genCSRFToken: the token, and the source after the 64 calls of rand.Intn
genCSRFToken(r) == [token |-> TokenDrawn(r), rng |-> (r + tokenLength) % SourcePeriod]

\* the POST of searchReportDataPaged: csrfToken is set in the form field
\* csrftoken, in the header X-CSRFToken and in the cookie csrftoken
SearchPost(csrfToken, start, resp) ==
    [kind |-> "searchPOST", via |-> SearchClient, authed |-> authed, cookies |-> {},
     path |-> searchDataPath, start |-> start, resp |-> resp,
     form |-> [csrftoken |-> csrfToken],
     header |-> [XCSRFToken |-> csrfToken],
     addedCookie |-> [csrftoken |-> csrfToken]]

\* Accumulate with the page put in front
AccumulateInFront(finalResults, results) == results \o finalResults

\* finalResults = append(finalResults, results...)
Accumulate(finalResults, results) == finalResults \o results

StartSearchReportData(t) ==
    /\ pc[t] = "idle"
    /\ \E total \in RecordTotals :
        loc' = [loc EXCEPT ![t] = [NoLoc EXCEPT !.op = "SearchReportData", !.after = "sr_loop",
                                                 !.start = 0, !.remainder = 1, !.total = total]]
    /\ pc' = [pc EXCEPT ![t] = "sr_loop"]
    /\ ret' = NoRet
    /\ UNCHANGED <<authed, jar, link, format, input, output, rng>>

\* the rows of page number k that the loop marked Valid, in the order of the page
RECURSIVE ValidOrigins(_, _, _, _)
ValidOrigins(k, data, parsed, i) ==
    IF i > Len(data) THEN <<>>
    ELSE (IF parsed[i].Valid THEN <<[page |-> k, index |-> i, row |-> data[i]]>> ELSE <<>>)
            \o ValidOrigins(k, data, parsed, i + 1)

\* PageRead without start = start + length
PageReadStartKept(t, resp, paged, reqs) ==
    /\ loc' = [loc EXCEPT ![t].finalResults = Accumulate(@, paged.results),
                          ![t].remainder = paged.remainder,
                          ![t].parsable = {i \in 1..Len(resp.Data) : ~LoopBody(resp.Data[i]).brk},
                          ![t].odd = {Len(resp.Data[i]) : i \in 1..Len(resp.Data)} \ {5},
                          ![t].results = paged.results,
                          ![t].origin =
                              @ \o ValidOrigins(Len(reqs), resp.Data, ParseRows(resp.Data), 1),
                          ![t].reqs = reqs]
    /\ UNCHANGED <<pc, ret>>

\* the locals of SearchReportData after a page that was read
PageRead(t, resp, paged, reqs) ==
    /\ loc' = [loc EXCEPT ![t].finalResults = Accumulate(@, paged.results),
                          ![t].remainder = paged.remainder,
                          ![t].start = @ + length,
                          ![t].parsable = {i \in 1..Len(resp.Data) : ~LoopBody(resp.Data[i]).brk},
                          ![t].odd = {Len(resp.Data[i]) : i \in 1..Len(resp.Data)} \ {5},
                          ![t].results = paged.results,
                          ![t].origin =
                              @ \o ValidOrigins(Len(reqs), resp.Data, ParseRows(resp.Data), 1),
                          ![t].reqs = reqs]
    /\ UNCHANGED <<pc, ret>>

\* AfterPage when a failed page hands back the pages read before it
AfterPageSalvaging(t, resp, paged, reqs) ==
    IF paged.err
    THEN Return(t, TRUE, loc[t].finalResults, reqs, loc[t].result)
    ELSE PageRead(t, resp, paged, reqs)

\* what SearchReportData does with what searchReportDataPaged returned
AfterPage(t, resp, paged, reqs) ==
    IF paged.err
    THEN Return(t, TRUE, <<>>, reqs, loc[t].result)
    ELSE PageRead(t, resp, paged, reqs)

\* the page request and what searchReportDataPaged makes of its answer
PageRequest(t, resp, paged, csrfToken) ==
    AfterPage(t, resp, paged,
              Append(loc[t].reqs,
                     SearchPost(csrfToken, loc[t].start,
                                [kind |-> resp.kind, RecordsTotal |-> resp.RecordsTotal,
                                 valid |-> Len(paged.results)])))

\* one turn of the loop of SearchReportData: a call of searchReportDataPaged
SearchPage(t) ==
    /\ pc[t] = "sr_loop"
    /\ loc[t].remainder > 0
    /\ LET generated == genCSRFToken(rng)
       IN /\ rng' = generated.rng
          /\ \E resp \in SearchResponses(loc[t].total) :
                PageRequest(t, resp, searchReportDataPaged(resp, loc[t].start), generated.token)
    /\ UNCHANGED <<authed, jar, link, format, input, output>>

\* the loop ends: return finalResults, nil
SearchReturn(t) ==
    /\ pc[t] = "sr_loop"
    /\ loc[t].remainder <= 0
    /\ Return(t, FALSE, loc[t].finalResults, loc[t].reqs, loc[t].result)
    /\ UNCHANGED <<authed, jar, link, format, input, output, rng>>

(***************************************************************************)
(* The documents the portal serves and the results a caller hands in.      *)
(***************************************************************************)
C_num == <<"1">>
C_date == <<"\n", " ">> \o D_ok \o <<"\n">>
C_badDate == D_bad
C_owner == <<"S", "e", "l", "f">>
C_ticker == <<" ">> \o Anchor(H_ptr, <<"A", "B">>) \o <<"\n">>
C_dashes == <<"\n", "-", "-", " ">>
C_noText == Anchor(H_ptr, <<>>)
C_name == <<BOpen, "A", " ", " ", "B", BClose>>
C_type == <<"S", "t", "o", "c", "k">>
C_trType == <<"S", "a", "l", "e">>
C_amount == <<"$", "1">>
C_comment == S_dashes

PTRRowGood == <<C_num, C_date, C_owner, C_ticker, C_name, C_type, C_trType, C_amount, C_comment>>
PTRRowDashes == <<C_num, C_date, C_owner, C_dashes, C_name, C_type, C_trType, C_amount, C_comment>>
PTRRowBadDate == <<C_num, C_badDate, C_owner, C_ticker, C_name, C_type, C_trType, C_amount, C_comment>>
PTRRowShort == <<C_num, C_date, C_owner, C_ticker, C_name, C_type, C_trType, C_amount>>
PTRRowNoText == <<C_num, C_date, C_owner, C_noText, C_name, C_type, C_trType, C_amount, C_comment>>
PTRRowLong == PTRRowGood \o <<C_comment>>
Row4aGood == <<<<>>, C_num, C_date, C_owner, C_ticker, C_name, C_trType, C_amount, C_comment>>
Row4bGood == <<<<>>, C_num, C_owner, C_dashes, C_name, C_trType, C_date, C_amount, C_comment>>

ImgGood == [hasSrc |-> TRUE, src |-> H_paper]
ImgNoSrc == [hasSrc |-> FALSE, src |-> <<>>]
ImgBadSrc == [hasSrc |-> TRUE, src |-> H_bad]
ImgOther == [hasSrc |-> TRUE, src |-> H_ptr]

\* a document: its headings, each with the cleaned text of the heading and
\* the rows of the table of its section, and its filing images
Document(sections, imgs) == [sections |-> sections, imgs |-> imgs]

\* doc.Find("div.table-responsive table.table tbody tr"): the rows of every
\* table of the document, in document order
RECURSIVE AllRows(_)
AllRows(sections) ==
    IF Len(sections) = 0 THEN <<>> ELSE Head(sections).rows \o AllRows(Tail(sections))

\* the documents served to the handlers of one client
ClientDocs ==
    {Document(<<>>, <<>>),
     Document(<<[title |-> "Transactions", rows |-> <<PTRRowGood, PTRRowBadDate, PTRRowDashes>>]>>,
              <<>>),
     Document(<<[title |-> "Transactions", rows |-> <<PTRRowShort>>]>>, <<>>),
     Document(<<[title |-> S_title4b, rows |-> <<Row4bGood>>],
                [title |-> S_title4a, rows |-> <<Row4aGood, PTRRowShort>>]>>, <<>>),
     Document(<<>>, <<ImgGood, ImgNoSrc, ImgGood>>),
     Document(<<>>, <<ImgBadSrc>>)}

\* the answers to the GET of a document
DocResponses ==
    {[kind |-> k, doc |-> Document(<<>>, <<>>)] : k \in {"transportErr", "bodyErr"}}
    \cup {[kind |-> "ok", doc |-> d] : d \in ClientDocs}

H_paperPrint == DirPath(<<S_search, S_print, S_paper, S_id>>)

\* the SearchResults handed to the handlers: any format with any of the paths
CallerResults ==
    {[ParseRow(RowPTR).res EXCEPT !.ReportFormat = f, !.FileURL.Path = p] :
        f \in ReportFormat, p \in {H_ptr, H_annual, H_paper, H_paperPrint}}

(***************************************************************************)
(* The document handlers.                                                  *)
(***************************************************************************)
Handlers == {"HandlePTRSearchResult", "HandleAnnualSearchResult", "HandlePaperSearchResult"}

\* HandlerOf when the switch has a default that reads the report as a PTR
HandlerOfDefaultPTR(fmt) ==
    IF fmt = AnnualFormat THEN "HandleAnnualSearchResult"
    ELSE IF fmt = PaperFormat THEN "HandlePaperSearchResult"
    ELSE "HandlePTRSearchResult"

\* the handler HandleResult selects for a format, "none" for the others
HandlerOf(fmt) ==
    IF fmt = PTRFormat THEN "HandlePTRSearchResult"
    ELSE IF fmt = AnnualFormat THEN "HandleAnnualSearchResult"
    ELSE IF fmt = PaperFormat THEN "HandlePaperSearchResult"
    ELSE "none"

\* HandlerEntry without the test of c.authed
HandlerEntryDirect(isAuthed) == "h_get"

\* HandlerEntry when every call starts with the handshake
HandlerEntryAlways(isAuthed) == "ad_get"

\* if !c.authed { err = c.AcceptDisclaimer() ... }: where a handler goes first
HandlerEntry(isAuthed) == IF ~isAuthed THEN "ad_get" ELSE "h_get"

\* the result a handler fetches: HandlePaperSearchResult rewrites the path of
\* the URL that result.FileURL points to, the URL of the caller's SearchResult
FetchedResult(h, result) ==
    IF h = "HandlePaperSearchResult"
    THEN [result EXCEPT !.FileURL.Path = PaperPath(result.FileURL.Path)]
    ELSE result

\* what a handler returns for the document it fetched
HandlerValue(h, doc) ==
    IF h = "HandlePTRSearchResult" THEN PTRTransactions(AllRows(doc.sections))
    ELSE IF h = "HandleAnnualSearchResult" THEN AnnualTransactions(doc.sections)
    ELSE [PageURLs |-> PaperPages(doc.imgs)]

\* ParsedReport without the assignment of result.ReportFormat: the format keeps
\* its zero value, the first of the enumeration
ParsedReportZeroFormat(fmt, h, val) ==
    [ReportFormat |-> AnnualFormat,
     Transactions |-> IF h \in {"HandlePTRSearchResult", "HandleAnnualSearchResult"} THEN val
                      ELSE <<>>,
     Pages |-> IF h = "HandlePaperSearchResult" THEN val ELSE [PageURLs |-> <<>>]]

\* the ParsedReport of HandleResult around the value of its handler
ParsedReport(fmt, h, val) ==
    [ReportFormat |-> fmt,
     Transactions |-> IF h \in {"HandlePTRSearchResult", "HandleAnnualSearchResult"} THEN val
                      ELSE <<>>,
     Pages |-> IF h = "HandlePaperSearchResult" THEN val ELSE [PageURLs |-> <<>>]]

\* a direct call of one of the three handlers
StartHandler(t) ==
    /\ pc[t] = "idle"
    /\ \E h \in Handlers, result \in CallerResults :
        /\ loc' = [loc EXCEPT ![t] = [NoLoc EXCEPT !.op = h, !.handler = h, !.after = "h_get",
                                                 !.result = result]]
        /\ pc' = [pc EXCEPT ![t] = HandlerEntry(authed)]
    /\ ret' = NoRet
    /\ UNCHANGED <<authed, jar, link, format, input, output, rng>>

\* HandleResult: the switch on result.ReportFormat
HandleResult(t) ==
    /\ pc[t] = "idle"
    /\ \E result \in CallerResults :
        LET h == HandlerOf(result.ReportFormat)
        IN IF h = "none"
           THEN /\ pc' = pc
                /\ loc' = loc
                /\ ret' = [op |-> "HandleResult", caller |-> t, err |-> FALSE,
                           val |-> ParsedReport(result.ReportFormat, h, <<>>),
                           reqs |-> <<>>, result |-> result, origin |-> <<>>]
           ELSE /\ loc' = [loc EXCEPT ![t] = [NoLoc EXCEPT !.op = "HandleResult", !.handler = h,
                                                        !.after = "h_get", !.result = result,
                                                        !.wrapped = TRUE]]
                /\ pc' = [pc EXCEPT ![t] = HandlerEntry(authed)]
                /\ ret' = NoRet
    /\ UNCHANGED <<authed, jar, link, format, input, output, rng>>

\* what a handler returns after the GET of the document
AfterGet(t, resp, h, fetched, reqs) ==
    IF resp.kind # "ok"
    THEN Return(t, TRUE, ErrVal(t), reqs, fetched)
    ELSE Return(t, FALSE,
                IF loc[t].wrapped
                THEN ParsedReport(fetched.ReportFormat, h, HandlerValue(h, resp.doc))
                ELSE HandlerValue(h, resp.doc),
                reqs, fetched)

\* the request of the document
DocRequest(t, resp, h, fetched) ==
    AfterGet(t, resp, h, fetched,
             Append(loc[t].reqs,
                    Request("docGET", "session", fetched.FileURL.Path, 0, [kind |-> resp.kind])))

\* the GET of the document and its extraction
HandlerGet(t) ==
    /\ pc[t] = "h_get"
    /\ \E resp \in DocResponses :
        DocRequest(t, resp, loc[t].handler, FetchedResult(loc[t].handler, loc[t].result))
    /\ UNCHANGED <<authed, jar, link, format, input, output, rng>>

(***************************************************************************)
(* The specifications.                                                     *)
(***************************************************************************)
NoLink == [segs |-> <<>>, lead |-> FALSE, trail |-> FALSE]
NoInput == [kind |-> "none"]
NoOutput == [kind |-> "none"]

\* the client after CreateEFDClient
Init ==
    /\ InitClient
    /\ link = NoLink
    /\ format = "none"
    /\ input = NoInput
    /\ output = NoOutput
    /\ rng = 0

\* the same client with the source of math/rand standing at one place or another
InitSearch ==
    /\ InitClient
    /\ link = NoLink
    /\ format = "none"
    /\ input = NoInput
    /\ output = NoOutput
    /\ rng \in SourceStarts

\* the session: the handshake and the document handlers
Next ==
    \E t \in Callers :
        \/ AllIdle /\ StartAcceptDisclaimer(t)
        \/ AcceptDisclaimerGet(t)
        \/ AcceptDisclaimerPost(t)
        \/ AllIdle /\ clearClient(t)
        \/ AllIdle /\ StartHandler(t)
        \/ AllIdle /\ HandleResult(t)
        \/ HandlerGet(t)

Spec == Init /\ [][Next]_vars

\* the searches of a client: SearchReportData reads and writes neither authed
\* nor the jar
NextSearch ==
    \E t \in Callers :
        \/ AllIdle /\ StartSearchReportData(t)
        \/ SearchPage(t)
        \/ SearchReturn(t)

SpecSearch == InitSearch /\ [][NextSearch]_vars

\* SearchPage(t) is enabled exactly when the loop condition holds
PageDue(t) == pc[t] = "sr_loop" /\ loc[t].remainder > 0

\* a step of the search taken while a page is due is a SearchPage step
PageTurn(t) == PageDue(t) /\ vars' # vars

\* SearchReportData is sequential code: a call that is in its loop goes on to
\* the next page request, whose answer arrives, or to its return.  The second
\* conjunct is WF_vars(SearchPage(t)) with ENABLED written as PageDue(t) and
\* the step as PageTurn(t).
SpecSearchFair ==
    SpecSearch /\ \A t \in Callers :
        /\ WF_vars(SearchReturn(t))
        /\ ([]<>~PageDue(t) \/ []<><<PageTurn(t)>>_vars)

\* URLToReportFormat applied to one path
InitClassify ==
    /\ InitClient
    /\ link \in PathInputs
    /\ format = "none"
    /\ input = NoInput
    /\ output = NoOutput
    /\ rng = 0

Classify ==
    /\ format = "none"
    /\ format' = URLToReportFormat(PathOf(link))
    /\ UNCHANGED <<authed, jar, pc, loc, ret, link, input, output, rng>>

NextClassify == Classify

SpecClassify == InitClassify /\ [][NextClassify]_vars


\* the extraction of a handler applied to one document
PTRRows == {PTRRowGood, PTRRowDashes, PTRRowBadDate, PTRRowShort, PTRRowNoText, PTRRowLong}
AnnualRows == {Row4aGood, Row4bGood, PTRRowShort}
S_titleOther == "Part 3. Assets"
Images == {ImgGood, ImgNoSrc, ImgBadSrc, ImgOther}

\* the sections of an Annual document: none, one or two headings
AnnualSection == [title : {S_title4a, S_title4b, S_titleOther}, rows : SeqsUpTo(AnnualRows, MaxTrs)]
AnnualDocs == {<<>>} \cup {<<a>> : a \in AnnualSection} \cup {<<a, b>> : a, b \in AnnualSection}

\* ticker cells: white space around a body that is plain text or holds
\* anchors; anchors lists the texts of the anchors written in the body
TickerTexts == SeqsUpTo({"A", "-", " ", "\n"}, MaxText)
Pads == {<<>>, <<" ">>, <<"\n", " ">>}
TickerBodies ==
    {[body |-> b, anchors |-> <<>>] :
        b \in {<<>>, <<"-">>, S_dashes, <<"-", "-", "-">>, <<"-", " ", "-">>,
               <<BOpen, "-", "-", BClose>>, <<"A", "B">>}}
    \cup {[body |-> Anchor(H_ptr, t), anchors |-> <<t>>] : t \in TickerTexts}
    \cup {[body |-> AnchorNoHref(t), anchors |-> <<t>>] : t \in TickerTexts}
    \cup {[body |-> <<BOpen>> \o Anchor(H_ptr, t) \o <<BClose>>, anchors |-> <<t>>] :
            t \in TickerTexts}
    \cup {[body |-> S_dashes \o Anchor(H_ptr, t), anchors |-> <<t>>] : t \in TickerTexts}
    \cup {[body |-> Anchor(H_ptr, t) \o <<" ">> \o Anchor(H_annual, <<"B">>),
           anchors |-> <<t, <<"B">> >>] : t \in TickerTexts}

TickerInputs ==
    {[kind |-> "tickerCell", cell |-> pre \o b.body \o post, anchors |-> b.anchors] :
        pre \in Pads, post \in Pads, b \in TickerBodies}

ExtractInputs ==
    TickerInputs \cup
    {[kind |-> "HandlePTRSearchResult",
      doc |-> Document(<<[title |-> "Transactions", rows |-> trs]>>, <<>>)] :
        trs \in SeqsUpTo(PTRRows, MaxTrs)}
    \cup {[kind |-> "HandleAnnualSearchResult", doc |-> Document(secs, <<>>)] : secs \in AnnualDocs}
    \cup {[kind |-> "HandlePaperSearchResult", doc |-> Document(<<>>, imgs)] :
            imgs \in SeqsUpTo(Images, MaxTrs)}

InitExtract ==
    /\ InitClient
    /\ link = NoLink
    /\ format = "none"
    /\ input \in ExtractInputs
    /\ output = NoOutput
    /\ rng = 0

\* what handler h makes of the document it fetched
Extract(h) ==
    /\ output = NoOutput
    /\ input.kind = h
    /\ output' = [kind |-> h, val |-> HandlerValue(h, input.doc)]
    /\ UNCHANGED <<authed, jar, pc, loc, ret, link, format, input, rng>>

\* handleTransactionCell on a ticker cell of a fresh Transaction
ReadTickerCell ==
    /\ output = NoOutput
    /\ input.kind = "tickerCell"
    /\ output' = [kind |-> "tickerCell",
                  val |-> handleTransactionCell(ZeroTransaction, input.cell, "tickerCell")]
    /\ UNCHANGED <<authed, jar, pc, loc, ret, link, format, input, rng>>

NextExtract ==
    \/ ReadTickerCell
    \/ Extract("HandlePTRSearchResult")
    \/ Extract("HandleAnnualSearchResult")
    \/ Extract("HandlePaperSearchResult")

SpecExtract == InitExtract /\ [][NextExtract]_vars

(***************************************************************************)
(* The JSON form of a report.  A JSON value is a record tagged by j: a      *)
(* string holds the characters between its quotes, an object is a function *)
(* of the keys it has.                                                     *)
(***************************************************************************)
\* the ReportFormat enumeration in the order of its iota
FormatOrder ==
    <<AnnualFormat, DueDateExtensionFormat, PTRFormat, BlindTrustFormat, OtherDocumentFormat,
      PaperFormat, UnknownFormat>>

FormatNumber(f) == (CHOOSE i \in 1..Len(FormatOrder) : FormatOrder[i] = f) - 1

\* a JSON number read into a ReportFormat
FormatOfNumber(n) == IF n + 1 \in 1..Len(FormatOrder) THEN FormatOrder[n + 1] ELSE UnknownFormat

\* json.Marshal of a string: the quote, the backslash, the control characters
\* and the characters of HTML are written as escapes
EscapeChar(c) ==
    IF c = "\"" THEN "\\\""
    ELSE IF c = "\\" THEN "\\\\"
    ELSE IF c = "\n" THEN "\\n"
    ELSE IF c = "<" THEN "\\u003c"
    ELSE IF c = ">" THEN "\\u003e"
    ELSE IF c = "&" THEN "\\u0026"
    ELSE c

\* json.Unmarshal of the characters of a string
UnescapeChar(c) ==
    IF c = "\\\"" THEN "\""
    ELSE IF c = "\\\\" THEN "\\"
    ELSE IF c = "\\n" THEN "\n"
    ELSE IF c = "\\u003c" THEN "<"
    ELSE IF c = "\\u003e" THEN ">"
    ELSE IF c = "\\u0026" THEN "&"
    ELSE c

JNull == [j |-> "null"]
JString(s) == [j |-> "string", text |-> [i \in 1..Len(s) |-> EscapeChar(s[i])]]
JNumber(n) == [j |-> "number", n |-> n]
JArray(elems) == [j |-> "array", elems |-> elems]
JObject(members) == [j |-> "object", members |-> members]

\* the Go string of a JSON string
StringOf(v) == [i \in 1..Len(v.text) |-> UnescapeChar(v.text[i])]

Pow10(k) == IF k = 0 THEN 1 ELSE 10 * (IF k = 1 THEN 1 ELSE IF k = 2 THEN 10 ELSE 100)

\* n in w decimal digits
DigitsOf(n, w) == [i \in 1..w |-> Digits[((n \div Pow10(w - i)) % 10) + 1]]

RECURSIVE NumberOf(_)
NumberOf(s) ==
    IF Len(s) = 0 THEN 0 ELSE 10 * NumberOf(Take(s, Len(s) - 1)) + DigitVal(s[Len(s)])

S_midnightUTC == <<"T", "0", "0", ":", "0", "0", ":", "0", "0", "Z">>

\* Time.MarshalJSON: RFC 3339; the times of time.Parse("01/02/2006") are
\* midnights in UTC
TimeFormat(t) ==
    DigitsOf(t.y, 4) \o <<"-">> \o DigitsOf(t.m, 2) \o <<"-">> \o DigitsOf(t.d, 2)
        \o S_midnightUTC

TimeOfNumbers(y, m, d) ==
    IF m \in 1..12 /\ d >= 1 /\ d <= DaysIn(m, y)
    THEN [err |-> FALSE, t |-> [y |-> y, m |-> m, d |-> d]]
    ELSE [err |-> TRUE, t |-> ZeroTime]

\* Time.UnmarshalJSON
TimeParse(s) ==
    IF /\ Len(s) = 10 + Len(S_midnightUTC)
       /\ s[5] = "-" /\ s[8] = "-"
       /\ \A i \in {1, 2, 3, 4, 6, 7, 9, 10} : IsDigit(s[i])
       /\ Drop(s, 10) = S_midnightUTC
    THEN TimeOfNumbers(NumberOf(SubSeq(s, 1, 4)), NumberOf(SubSeq(s, 6, 7)),
                       NumberOf(SubSeq(s, 9, 10)))
    ELSE [err |-> TRUE, t |-> ZeroTime]

\* URL.String of a URL without user, query and fragment
URLString(u) ==
    (IF u.Scheme # <<>> THEN u.Scheme \o <<":">> ELSE <<>>)
        \o (IF u.Scheme # <<>> \/ u.Host # <<>> THEN <<Slash, Slash>> \o u.Host ELSE <<>>)
        \o u.Path

IsLetter(c) == IsUpper(c) \/ \E i \in 1..Len(LowerChars) : LowerChars[i] = c

\* getScheme of net/url: the letters before the first colon, 0 when there is
\* no scheme
SchemeEnd(s) ==
    IF \E i \in 2..Len(s) : s[i] = ":" /\ \A k \in 1..(i - 1) : IsLetter(s[k])
    THEN CHOOSE i \in 2..Len(s) : s[i] = ":" /\ \A k \in 1..(i - 1) : s[k] # ":"
    ELSE 0

WithScheme(scheme, parsed) ==
    IF parsed.err THEN parsed ELSE [parsed EXCEPT !.url.Scheme = scheme]

\* url.Parse of an absolute or relative reference
UrlParseRef(s, i) == IF i = 0 THEN UrlParse(s) ELSE WithScheme(Take(s, i - 1), UrlParse(Drop(s, i)))

\* the keys of Transaction's tags: Valid is tagged "-"
TransactionStrings == {"owner", "ticker", "assetname", "assettype", "type", "amount", "comment"}

TransactionField(tr, k) ==
    CASE k = "owner" -> tr.Owner
      [] k = "ticker" -> tr.Ticker
      [] k = "assetname" -> tr.AssetName
      [] k = "assettype" -> tr.AssetType
      [] k = "type" -> tr.Type
      [] k = "amount" -> tr.Amount
      [] k = "comment" -> tr.Comment

\* json.Marshal of a Transaction: the date always, a string unless it is empty
\* (omitempty), Valid never
TransactionJSON(tr) ==
    JObject([k \in {"date"} \cup {f \in TransactionStrings : TransactionField(tr, f) # <<>>} |->
                IF k = "date" THEN JString(TimeFormat(tr.Date))
                ELSE JString(TransactionField(tr, k))])

\* the string of member k of an object, empty when the key is absent
MemberString(o, k) == IF k \in DOMAIN o.members THEN StringOf(o.members[k]) ELSE <<>>

\* json.Unmarshal into a Transaction
TransactionOfJSON(o) ==
    [Date |-> TimeParse(MemberString(o, "date")).t,
     Owner |-> MemberString(o, "owner"), Ticker |-> MemberString(o, "ticker"),
     AssetName |-> MemberString(o, "assetname"), AssetType |-> MemberString(o, "assettype"),
     Type |-> MemberString(o, "type"), Amount |-> MemberString(o, "amount"),
     Comment |-> MemberString(o, "comment"), Valid |-> FALSE]

\* a slice: nil, or its elements
NilSlice == [nil |-> TRUE, elems |-> <<>>]
Slice(elems) == [nil |-> FALSE, elems |-> elems]

\* the struct ReportToJson fills: Transactions and Pages stay nil unless the
\* switch on the format of the result assigns them
ReportJsonOf(result, parsedReport) ==
    [FirstName |-> result.FirstName, LastName |-> result.LastName,
     ReportName |-> result.ReportName, ReportURL |-> [URL |-> result.FileURL],
     DateSubmitted |-> result.DateSubmitted, ReportFormat |-> result.ReportFormat,
     ReportID |-> result.ReportID,
     Transactions |-> IF result.ReportFormat \in {AnnualFormat, PTRFormat}
                      THEN Slice(parsedReport.Transactions) ELSE NilSlice,
     Pages |-> IF result.ReportFormat = PaperFormat
               THEN Slice([i \in 1..Len(parsedReport.Pages.PageURLs) |->
                              [URL |-> parsedReport.Pages.PageURLs[i]]])
               ELSE NilSlice]

\* JSONURL.MarshalJSON: j.URL.String() of a nil URL dereferences nil
MarshalPanics(ptrj) ==
    \/ ptrj.ReportURL.URL = Nil
    \/ \E i \in 1..Len(ptrj.Pages.elems) : ptrj.Pages.elems[i].URL = Nil

\* JSONURL.MarshalJSON
JSONURLMarshal(j) == JString(URLString(j.URL))

\* json.Marshal of a ReportJson whose URLs are there
MarshalReport(ptrj) ==
    JObject([firstname |-> JString(ptrj.FirstName), lastname |-> JString(ptrj.LastName),
             reportname |-> JString(ptrj.ReportName),
             reporturl |-> JSONURLMarshal(ptrj.ReportURL),
             datesubmitted |-> JString(TimeFormat(ptrj.DateSubmitted)),
             reportformat |-> JNumber(FormatNumber(ptrj.ReportFormat)),
             reportid |-> JString(ptrj.ReportID),
             transactions |-> IF ptrj.Transactions.nil THEN JNull
                              ELSE JArray([i \in 1..Len(ptrj.Transactions.elems) |->
                                              TransactionJSON(ptrj.Transactions.elems[i])]),
             pages |-> IF ptrj.Pages.nil THEN JNull
                       ELSE JArray([i \in 1..Len(ptrj.Pages.elems) |->
                                       JSONURLMarshal(ptrj.Pages.elems[i])])])

Marshal(ptrj) ==
    IF MarshalPanics(ptrj) THEN [panic |-> TRUE, err |-> FALSE, out |-> JNull]
    ELSE [panic |-> FALSE, err |-> FALSE, out |-> MarshalReport(ptrj)]

\* ReportToJson
ReportToJson(result, parsedReport) == Marshal(ReportJsonOf(result, parsedReport))

\* JSONURL.UnmarshalJSON has a value receiver: j.URL = url assigns to the copy
\* the method was called on, and the JSONURL being decoded keeps the URL it had
JSONURLUnmarshal(j, v) == [err |-> UrlParseRef(StringOf(v), SchemeEnd(StringOf(v))).err, j |-> j]

ZeroJSONURL == [URL |-> Nil]

\* the elements of an array or of null
ElemsOf(v) == IF v.j = "array" THEN v.elems ELSE <<>>

\* json.Unmarshal of the bytes of ReportToJson into a ReportJson
Unmarshal(o) ==
    [err |-> \/ TimeParse(MemberString(o, "datesubmitted")).err
             \/ JSONURLUnmarshal(ZeroJSONURL, o.members.reporturl).err
             \/ \E i \in 1..Len(ElemsOf(o.members.transactions)) :
                   TimeParse(MemberString(ElemsOf(o.members.transactions)[i], "date")).err
             \/ \E i \in 1..Len(ElemsOf(o.members.pages)) :
                   JSONURLUnmarshal(ZeroJSONURL, ElemsOf(o.members.pages)[i]).err,
     val |-> [FirstName |-> MemberString(o, "firstname"),
              LastName |-> MemberString(o, "lastname"),
              ReportName |-> MemberString(o, "reportname"),
              ReportURL |-> JSONURLUnmarshal(ZeroJSONURL, o.members.reporturl).j,
              DateSubmitted |-> TimeParse(MemberString(o, "datesubmitted")).t,
              ReportFormat |-> FormatOfNumber(o.members.reportformat.n),
              ReportID |-> MemberString(o, "reportid"),
              Transactions |-> [i \in 1..Len(ElemsOf(o.members.transactions)) |->
                                   TransactionOfJSON(ElemsOf(o.members.transactions)[i])],
              Pages |-> [i \in 1..Len(ElemsOf(o.members.pages)) |->
                            JSONURLUnmarshal(ZeroJSONURL, ElemsOf(o.members.pages)[i]).j]]]

\* the reports HandleResult returns for the documents of the portal
HandledReports ==
    {ParsedReport(f, "HandlePTRSearchResult", PTRTransactions(trs)) :
        f \in {PTRFormat}, trs \in SeqsUpTo(PTRRows, MaxTrs)}
    \cup {ParsedReport(f, "HandleAnnualSearchResult",
                       AnnualTransactions(<<[title |-> S_title4b, rows |-> trs]>>)) :
            f \in {AnnualFormat}, trs \in SeqsUpTo(AnnualRows, MaxTrs)}
    \cup {ParsedReport(f, "HandlePaperSearchResult", [PageURLs |-> PaperPages(imgs)]) :
            f \in {PaperFormat}, imgs \in SeqsUpTo(Images, MaxTrs)}
    \cup {ParsedReport(f, "none", <<>>) :
            f \in ReportFormat \ {PTRFormat, AnnualFormat, PaperFormat}}

\* a SearchResult of the search with the report made of it
JsonInputs ==
    {[kind |-> "report", result |-> result, parsedReport |-> parsedReport] :
        result \in CallerResults, parsedReport \in HandledReports}

InitJson ==
    /\ InitClient
    /\ link = NoLink
    /\ format = "none"
    /\ input \in JsonInputs
    /\ output = NoOutput
    /\ rng = 0

\* a call of ReportToJson
Encode ==
    /\ output = NoOutput
    /\ output' = [kind |-> "ReportToJson",
                  val |-> ReportToJson(input.result, input.parsedReport)]
    /\ UNCHANGED <<authed, jar, pc, loc, ret, link, format, input, rng>>

\* json.Unmarshal of the bytes into a ReportJson
Decode ==
    /\ output.kind = "ReportToJson"
    /\ ~output.val.panic /\ ~output.val.err
    /\ output' = [kind |-> "Unmarshal", val |-> Unmarshal(output.val.out)]
    /\ UNCHANGED <<authed, jar, pc, loc, ret, link, format, input, rng>>

NextJson == Encode \/ Decode

SpecJson == InitJson /\ [][NextJson]_vars

(***************************************************************************)
(* Two document-handler calls on one client, each in its own goroutine.    *)
(* EFDClient has no mutex: the steps of the two calls interleave, and the  *)
(* read of c.authed at the entry of a call races with the write at the end *)
(* of the other call's AcceptDisclaimer.                                   *)
(***************************************************************************)
Threads == {"main", "worker"}

\* what an unsynchronised read of a flag that only goes from false to true can
\* give: its value, or the false it held before the other goroutine's write
RacyRead(value) == IF value THEN BOOLEAN ELSE {FALSE}

\* the result both calls are made for
RacingResults == {r \in CallerResults : r.ReportFormat = PTRFormat /\ r.FileURL.Path = H_ptr}

InitConcurrent ==
    /\ authed = FALSE
    /\ jar = {}
    /\ pc = [t \in Threads |-> "ready"]
    /\ loc = [t \in Threads |-> NoLoc]
    /\ ret = NoRet
    /\ link = NoLink
    /\ format = "none"
    /\ input = NoInput
    /\ output = NoOutput
    /\ rng = 0

\* the entry of a handler in goroutine t: if !c.authed
StartRacing(t) ==
    /\ pc[t] = "ready"
    /\ \E h \in Handlers, result \in RacingResults, seen \in RacyRead(authed) :
        /\ loc' = [loc EXCEPT ![t] = [NoLoc EXCEPT !.op = h, !.handler = h, !.after = "h_get",
                                                 !.result = result]]
        /\ pc' = [pc EXCEPT ![t] = HandlerEntry(seen)]
    /\ UNCHANGED <<authed, jar, ret, link, format, input, output, rng>>

NextConcurrent ==
    \E t \in Threads :
        \/ StartRacing(t)
        \/ AcceptDisclaimerGet(t)
        \/ AcceptDisclaimerPost(t)
        \/ HandlerGet(t)

SpecConcurrent == InitConcurrent /\ [][NextConcurrent]_vars

(***************************************************************************)
(* Properties of SearchReportData (under SpecSearch).                      *)
(***************************************************************************)
SearchReturned == ret.op = "SearchReportData"

\* the record count the endpoint reported to the call that returned
Reported == ret.reqs[1].resp.RecordsTotal

CeilDiv(a, b) == (a + b - 1) \div b

\* the rows of page k among the rows marked Valid
OriginsOfPage(origin, k) == {i \in 1..Len(origin) : origin[i].page = k}

\* C1, as stated: a call of SearchReportData in which every page request
\* succeeds issues exactly ceil(R/L) page requests, for every R >= 0.
PageRequestsCeil ==
    (SearchReturned /\ ~ret.err) => Len(ret.reqs) = CeilDiv(Reported, length)

\* C1, amended: such a call issues ceil(R/L) page requests when R >= 1 and
\* one page request when R = 0, the k-th of them for the offset (k-1)*L.
PageRequestsCeilOrOne ==
    (SearchReturned /\ ~ret.err) =>
        /\ Reported >= 1 => Len(ret.reqs) = CeilDiv(Reported, length)
        /\ Reported = 0 => Len(ret.reqs) = 1
        /\ \A k \in 1..Len(ret.reqs) :
            /\ ret.reqs[k].kind = "searchPOST"
            /\ ret.reqs[k].start = (k - 1) * length

\* a search of length + 1 records returned after two pages
SearchOfTwoPages ==
    /\ SearchReturned
    /\ ~ret.err
    /\ Reported = length + 1
    /\ Len(ret.reqs) = 2

\* C2, as stated: a row that fails to parse removes only itself; every row
\* of the page that parses fully is in the page's result, the rows after a
\* malformed one included.
ParsableRowsKept ==
    \A t \in Callers :
        pc[t] = "sr_loop" =>
            /\ Len(loc[t].results) = Cardinality(loc[t].parsable)
            /\ \A i \in loc[t].parsable :
                \E k \in OriginsOfPage(loc[t].origin, Len(loc[t].reqs)) :
                    loc[t].origin[k].index = i

\* C3: when a page request fails the call returns an error and no results,
\* and the failed request is the last one the call issued.
FailedPageFailsSearch ==
    /\ \A t \in Callers :
        \A k \in 1..Len(loc[t].reqs) :
            loc[t].reqs[k].kind = "searchPOST" => loc[t].reqs[k].resp.kind = "ok"
    /\ SearchReturned =>
        /\ \A k \in 1..Len(ret.reqs) :
            ret.reqs[k].resp.kind # "ok" =>
                /\ k = Len(ret.reqs)
                /\ ret.err
                /\ ret.val = <<>>
        /\ ret.err => Len(ret.reqs) >= 1 /\ ret.reqs[Len(ret.reqs)].resp.kind # "ok"

\* the second page of a search failed after a first page with results
SecondPageFailed ==
    /\ SearchReturned
    /\ ret.err
    /\ Len(ret.reqs) = 2
    /\ ret.reqs[1].resp.valid > 0
    /\ ret.val = <<>>

\* C4: the result is the rows marked Valid of the first page, then those of
\* the second, and so on, each page's rows in response order, a row served
\* on two pages occurring twice.
PagesInRequestOrder ==
    (SearchReturned /\ ~ret.err) =>
        /\ Len(ret.val) = Len(ret.origin)
        /\ \A i \in 1..Len(ret.val) : ret.val[i] = ParseRow(ret.origin[i].row).res
        /\ \A i, j \in 1..Len(ret.origin) :
            i < j => \/ ret.origin[i].page < ret.origin[j].page
                     \/ /\ ret.origin[i].page = ret.origin[j].page
                        /\ ret.origin[i].index < ret.origin[j].index
        /\ \A k \in 1..Len(ret.reqs) :
            Cardinality(OriginsOfPage(ret.origin, k)) = ret.reqs[k].resp.valid

\* the same row was served on the first and on the second page, after
\* another row of the first page
RowServedTwice ==
    /\ SearchReturned
    /\ ~ret.err
    /\ Len(ret.val) = 3
    /\ ret.val[1] # ret.val[2]
    /\ ret.val[2] = ret.val[3]
    /\ ret.origin[2].page = 1
    /\ ret.origin[3].page = 2

\* what the loop body makes of the rows of 5 elements
RowResults == {ParseRow(row).res : row \in {r \in Rows : Len(r) = 5}}

\* C5: a row whose element count is not 5 is never among the rows of a
\* page's result nor of the result of SearchReportData.
OnlyRowsOfFive ==
    /\ \A t \in Callers :
        /\ Len(loc[t].finalResults) = Len(loc[t].origin)
        /\ \A i \in 1..Len(loc[t].origin) : Len(loc[t].origin[i].row) = 5
        /\ \A i \in 1..Len(loc[t].results) : loc[t].results[i] \in RowResults
    /\ SearchReturned =>
        /\ Len(ret.val) = IF ret.err THEN 0 ELSE Len(ret.origin)
        /\ \A i \in 1..Len(ret.origin) : Len(ret.origin[i].row) = 5
        /\ \A i \in 1..Len(ret.val) : ret.val[i] \in RowResults

\* a page that holds a row of 4 elements gave a result
ShortRowServed ==
    \E t \in Callers :
        /\ pc[t] = "sr_loop"
        /\ 4 \in loc[t].odd
        /\ Len(loc[t].results) >= 1
        /\ Len(loc[t].reqs) = 2

IsLower(s) == \A i \in 1..Len(s) : ~IsUpper(s[i])

\* a SearchResult all of whose fields were read from the row
FullyParsed(r, row) ==
    /\ r.Valid
    /\ r # ZeroResult
    /\ r.FileURL # Nil
    /\ r.FileURL.Host = S_host
    /\ ~ParseDate(row[5]).err
    /\ r.DateSubmitted = ParseDate(row[5]).t
    /\ r.DateSubmitted # ZeroTime
    /\ r.FirstName = ToLower(row[1]) /\ IsLower(r.FirstName)
    /\ r.LastName = ToLower(row[2]) /\ IsLower(r.LastName)
    /\ r.FullName = ToLower(row[3]) /\ IsLower(r.FullName)
    /\ r.ReportFormat = URLToReportFormat(r.FileURL.Path)

\* C6: every SearchResult that SearchReportData returns has Valid set, a
\* resolved document URL, a parsed date, lower-cased names and the format of
\* its URL; none is a zero value left by a row that was not read to the end.
ReturnedResultsParsed ==
    /\ \A t \in Callers :
        \A i \in 1..Len(loc[t].finalResults) : loc[t].finalResults[i].Valid
    /\ SearchReturned =>
        /\ Len(ret.val) <= Len(ret.origin)
        /\ \A i \in 1..Len(ret.val) : FullyParsed(ret.val[i], ret.origin[i].row)

\* a search returned a PTR whose row has upper-case names and a paper report
PTRAndPaperReturned ==
    /\ SearchReturned
    /\ ~ret.err
    /\ Len(ret.val) = 2
    /\ ret.val[1].ReportFormat = PTRFormat
    /\ ret.origin[1].row[2] # ret.val[1].LastName
    /\ ret.val[2].ReportFormat = PaperFormat

\* C8, as stated: called with authed false, SearchReportData runs the
\* handshake before its first page request, and its page requests go through
\* the client of the session, which carries the cookies.
SearchAuthenticated ==
    \A t \in Callers :
        \A k \in 1..Len(loc[t].reqs) :
            loc[t].reqs[k].kind = "searchPOST" =>
                /\ loc[t].reqs[k].authed
                /\ loc[t].reqs[k].via = "session"

(***************************************************************************)
(* Properties of the session (under Spec).                                 *)
(***************************************************************************)
IsDocGet(r) == r.kind = "docGET"

HandlerReturned == ret.op \in Handlers \cup {"HandleResult"} /\ Len(ret.reqs) >= 1

\* C7: no handler issues the GET of the document while authed is false; a
\* handler called with authed false runs AcceptDisclaimer first, and when
\* that fails it returns the error, fetches nothing and authed stays false.
NoFetchUnauthenticated ==
    /\ \A t \in Callers :
        /\ pc[t] = "h_get" => authed
        /\ \A k \in 1..Len(loc[t].reqs) : IsDocGet(loc[t].reqs[k]) => loc[t].reqs[k].authed
    /\ HandlerReturned =>
        /\ \A k \in 1..Len(ret.reqs) : IsDocGet(ret.reqs[k]) => ret.reqs[k].authed
        /\ ~ret.reqs[1].authed => ret.reqs[1].kind = "homeGET"
        /\ (~ret.reqs[1].authed /\ ~IsDocGet(ret.reqs[Len(ret.reqs)])) =>
            /\ ret.err
            /\ ~authed
            /\ \A k \in 1..Len(ret.reqs) : ~IsDocGet(ret.reqs[k])

\* a handler called with authed false returned after the POST of the
\* handshake failed
HandshakeFailedInHandler ==
    /\ ret.op \in Handlers
    /\ Len(ret.reqs) = 2
    /\ ~ret.reqs[1].authed
    /\ ret.reqs[2].kind = "homePOST"
    /\ ret.err
    /\ ~authed

\* the GET of the home page gave a token
YieldedToken(resp) ==
    /\ resp.kind = "ok"
    /\ resp.status = 200
    /\ \E i \in 1..Len(resp.page) :
        /\ resp.page[i].name = "csrfmiddlewaretoken"
        /\ resp.page[i].hasValue /\ resp.page[i].value # ""
        /\ \A j \in 1..(i - 1) : resp.page[j].name # "csrfmiddlewaretoken"

\* C9: AcceptDisclaimer sets authed exactly when the GET of the home page
\* gave a token and the POST had no transport error, whatever its status;
\* otherwise it returns an error and authed keeps the value it had.
AuthedExactlyOnRoundTrip ==
    ret.op = "AcceptDisclaimer" =>
        /\ Len(ret.reqs) >= 1
        /\ ret.reqs[1].kind = "homeGET"
        /\ YieldedToken(ret.reqs[1].resp) <=> Len(ret.reqs) = 2
        /\ ~ret.err <=> /\ YieldedToken(ret.reqs[1].resp)
                        /\ Len(ret.reqs) = 2
                        /\ ret.reqs[2].kind = "homePOST"
                        /\ ret.reqs[2].resp.kind # "transportErr"
        /\ ~ret.err => authed
        /\ ret.err => authed = ret.reqs[1].authed

\* AcceptDisclaimer succeeded on a POST answered with status 403
AcceptedOnStatus403 ==
    /\ ret.op = "AcceptDisclaimer"
    /\ ~ret.err
    /\ ~ret.reqs[1].authed
    /\ ret.reqs[2].resp.status = 403
    /\ authed

(***************************************************************************)
(* Properties of URLToReportFormat (under SpecClassify).                   *)
(***************************************************************************)
\* link is .../<segment>/<id>/ with an id that is a name
TrailingSlashShape ==
    /\ link.trail
    /\ Len(link.segs) >= 2
    /\ link.segs[Len(link.segs)] \notin {<<>>, S_dotdot}

\* the segment before the id, and the one before that
SegmentOf(in) == in.segs[Len(in.segs) - 1]
BeforeSegment(in) == IF Len(in.segs) >= 3 THEN in.segs[Len(in.segs) - 2] ELSE <<>>

\* C10: URLToReportFormat maps a path .../<segment>/<id>/ by its segment:
\* ptr to PTR, annual to Annual, paper to Paper, and regular after
\* extension-notice to DueDateExtension.
TrailingSlashFormats ==
    (format # "none" /\ TrailingSlashShape) =>
        /\ SegmentOf(link) = S_ptr => format = PTRFormat
        /\ SegmentOf(link) = S_annual => format = AnnualFormat
        /\ SegmentOf(link) = S_paper => format = PaperFormat
        /\ (SegmentOf(link) = S_regular /\ BeforeSegment(link) = S_extension) =>
            format = DueDateExtensionFormat

\* /extension-notice/regular/<id>/ was classified as a due date extension
ExtensionClassified ==
    /\ TrailingSlashShape
    /\ link.lead
    /\ link.segs = <<S_extension, S_regular, S_id>>
    /\ format = DueDateExtensionFormat

NonEmpty(e) == e # <<>>

\* the elements between the slashes of p that name the document: for a path
\* that ends in a slash those of the cleaned path, the last being the id; for
\* another path the non-empty ones before the file, with the file as the id
ShapeElements(p) ==
    IF Len(p) > 0 /\ p[Len(p)] = Slash
    THEN CleanSegs(SplitSlash(p), <<>>, p[1] = Slash)
    ELSE Append(SelectSeq(Take(SplitSlash(p), Len(SplitSlash(p)) - 1), NonEmpty), <<"f">>)

\* es is <...>/<segment>/<id> for one of the known segments
KnownElements(es) ==
    /\ Len(es) >= 2
    /\ \/ es[Len(es) - 1] \in {S_ptr, S_annual, S_paper}
       \/ /\ Len(es) >= 3
          /\ es[Len(es) - 1] = S_regular
          /\ es[Len(es) - 2] = S_extension

KnownShape(p) == KnownElements(ShapeElements(p))

\* C11: URLToReportFormat returns a tag for every path; a path of none of
\* the known shapes (a regular segment that does not follow extension-notice
\* included) gives Unknown, no path gives BlindTrust or OtherDocument, and
\* the tag is a function of the path.
ClassifierTotal ==
    format # "none" =>
        /\ format \in ReportFormat \ {BlindTrustFormat, OtherDocumentFormat}
        /\ ~KnownShape(PathOf(link)) => format = UnknownFormat
        /\ format = URLToReportFormat(PathOf(link))

\* /annual/regular/<id>/ was classified as Unknown
RegularWithoutExtension ==
    /\ link.lead /\ link.trail
    /\ link.segs = <<S_annual, S_regular, S_id>>
    /\ format = UnknownFormat


(***************************************************************************)
(* Properties of the extractions (under SpecExtract).                      *)
(***************************************************************************)
\* the ticker cell can be read: it is "--" or its first anchor has a text
TickerReadable(cell) ==
    \/ stripHTMLSelection(cell) = S_dashes
    \/ parseAnchor(stripHTMLSelection(cell)).Text # <<>>

TickerOf(cell) ==
    IF stripHTMLSelection(cell) = S_dashes THEN S_dashes
    ELSE parseAnchor(stripHTMLSelection(cell)).Text

\* a row of the PTR table all of whose cells parse
PTRRowParses(tds) ==
    /\ Len(tds) = 9
    /\ ~ParseDate(removeHTMLSelection(tds[2])).err
    /\ TickerReadable(tds[4])

\* the Transaction such a row stands for
PTRRowTransaction(tds) ==
    [Date |-> ParseDate(removeHTMLSelection(tds[2])).t,
     Owner |-> removeHTMLSelection(tds[3]),
     Ticker |-> TickerOf(tds[4]),
     AssetName |-> removeHTMLSelection(tds[5]),
     AssetType |-> removeHTMLSelection(tds[6]),
     Type |-> removeHTMLSelection(tds[7]),
     Amount |-> removeHTMLSelection(tds[8]),
     Comment |-> removeHTMLSelection(tds[9]),
     Valid |-> TRUE]

PTRExtracted == output.kind = "HandlePTRSearchResult"

\* C12: HandlePTRSearchResult returns one Transaction for each row of 9
\* cells that all parse and none for another row, in the order of the rows,
\* each with Valid set.
PTROneTransactionPerRow ==
    PTRExtracted =>
        LET parsed == SelectSeq(AllRows(input.doc.sections), PTRRowParses)
        IN /\ Len(output.val) = Len(parsed)
           /\ \A k \in 1..Len(output.val) :
               /\ output.val[k].Valid
               /\ output.val[k] = PTRRowTransaction(parsed[k])

\* of a row with a date that does not parse and a good row, the good one
\* was returned
PTRBadRowSkipped ==
    /\ PTRExtracted
    /\ AllRows(input.doc.sections) = <<PTRRowBadDate, PTRRowGood>>
    /\ Len(output.val) = 1
    /\ output.val[1].Ticker = <<"A", "B">>


\* the content of a cell with its white space collapsed
Collapsed(cell) == CollapseSpace(TrimSpace(cell))

\* C13: a ticker cell whose white-space-collapsed content is "--" gives the
\* Ticker "--"; any other content gives the text of the first anchor of the
\* cell, and the cell fails when that text is empty (or there is no anchor).
TickerSentinelOrAnchor ==
    output.kind = "tickerCell" =>
        IF Collapsed(input.cell) = S_dashes
        THEN output.val.ok /\ output.val.tr.Ticker = S_dashes
        ELSE IF input.anchors = <<>> \/ input.anchors[1] = <<>>
        THEN ~output.val.ok /\ output.val.tr = ZeroTransaction
        ELSE /\ output.val.ok
             /\ output.val.tr.Ticker = CollapseSpace(input.anchors[1])
             /\ output.val.tr.Ticker = parseAnchor(Collapsed(input.cell)).Text

\* a cell of "--" between white space was read as "--", with no anchor in it
TickerSentinelRead ==
    /\ output.kind = "tickerCell"
    /\ input.cell = <<"\n", " ", "-", "-", " ">>
    /\ output.val.ok
    /\ output.val.tr.Ticker = S_dashes


\* the sections of a document with a title, and the rows of the first of them
SectionsTitled(secs, title) == {i \in 1..Len(secs) : secs[i].title = title}

RowsTitled(secs, title) ==
    IF SectionsTitled(secs, title) = {} THEN <<>>
    ELSE secs[CHOOSE i \in SectionsTitled(secs, title) : TRUE].rows

\* a row of Part 4a all of whose cells parse, and its Transaction
Row4aParses(tds) ==
    /\ Len(tds) = 9
    /\ ~ParseDate(removeHTMLSelection(tds[3])).err
    /\ TickerReadable(tds[5])

Row4aTransaction(tds) ==
    [Date |-> ParseDate(removeHTMLSelection(tds[3])).t,
     Owner |-> removeHTMLSelection(tds[4]),
     Ticker |-> TickerOf(tds[5]),
     AssetName |-> removeHTMLSelection(tds[6]),
     AssetType |-> <<>>,
     Type |-> removeHTMLSelection(tds[7]),
     Amount |-> removeHTMLSelection(tds[8]),
     Comment |-> removeHTMLSelection(tds[9]),
     Valid |-> TRUE]

\* a row of Part 4b all of whose cells parse, and its Transaction
Row4bParses(tds) ==
    /\ Len(tds) = 9
    /\ TickerReadable(tds[4])
    /\ ~ParseDate(removeHTMLSelection(tds[7])).err

Row4bTransaction(tds) ==
    [Date |-> ParseDate(removeHTMLSelection(tds[7])).t,
     Owner |-> removeHTMLSelection(tds[3]),
     Ticker |-> TickerOf(tds[4]),
     AssetName |-> removeHTMLSelection(tds[5]),
     AssetType |-> <<>>,
     Type |-> removeHTMLSelection(tds[6]),
     Amount |-> removeHTMLSelection(tds[8]),
     Comment |-> removeHTMLSelection(tds[9]),
     Valid |-> TRUE]

Transactions4a(secs) ==
    LET rows == SelectSeq(RowsTitled(secs, S_title4a), Row4aParses)
    IN [k \in 1..Len(rows) |-> Row4aTransaction(rows[k])]

Transactions4b(secs) ==
    LET rows == SelectSeq(RowsTitled(secs, S_title4b), Row4bParses)
    IN [k \in 1..Len(rows) |-> Row4bTransaction(rows[k])]

\* C14: for an Annual document with one Part 4a and one Part 4b section at
\* most, HandleAnnualSearchResult returns the valid rows of Part 4a, then
\* those of Part 4b, each group in row order, whichever heading comes first.
AnnualPart4aFirst ==
    (/\ output.kind = "HandleAnnualSearchResult"
     /\ Cardinality(SectionsTitled(input.doc.sections, S_title4a)) <= 1
     /\ Cardinality(SectionsTitled(input.doc.sections, S_title4b)) <= 1) =>
        output.val = Transactions4a(input.doc.sections) \o Transactions4b(input.doc.sections)

\* of a document whose Part 4b comes before its Part 4a, the row of Part 4a
\* was returned first
Part4bBeforePart4a ==
    /\ output.kind = "HandleAnnualSearchResult"
    /\ Len(input.doc.sections) = 2
    /\ input.doc.sections[1] = [title |-> S_title4b, rows |-> <<Row4bGood>>]
    /\ input.doc.sections[2] = [title |-> S_title4a, rows |-> <<PTRRowShort, Row4aGood>>]
    /\ Len(output.val) = 2
    /\ output.val[1].Ticker = <<"A", "B">>
    /\ output.val[2].Ticker = S_dashes


\* an image whose source is there and parses
ImageParses(img) == img.hasSrc /\ ~UrlParse(img.src).err

\* C15, as stated: the PaperReport holds the parsed source URLs of the
\* filing images, in document order; an image without source or with a
\* source that does not parse is skipped, so that there is one entry for each
\* image that parses and no nil entry.
PaperPagesParsedOnly ==
    output.kind = "HandlePaperSearchResult" =>
        LET parsed == SelectSeq(input.doc.imgs, ImageParses)
        IN /\ Len(output.val.PageURLs) = Len(parsed)
           /\ \A k \in 1..Len(output.val.PageURLs) :
               /\ output.val.PageURLs[k] # Nil
               /\ output.val.PageURLs[k] = UrlParse(parsed[k].src).url


(***************************************************************************)
(* HandleResult (Spec).                                                    *)
(***************************************************************************)
DispatchedFormats == {PTRFormat, AnnualFormat, PaperFormat}

\* the handler the switch of HandleResult names for a dispatched format
HandlerNamed(fmt, h) ==
    \/ fmt = PTRFormat /\ h = "HandlePTRSearchResult"
    \/ fmt = AnnualFormat /\ h = "HandleAnnualSearchResult"
    \/ fmt = PaperFormat /\ h = "HandlePaperSearchResult"

\* C16: HandleResult selects the handler by result.ReportFormat alone; for a
\* format that is not PTR, Annual or Paper the step that returns its report
\* makes no request and no handshake, leaves authed and the cookie store as
\* they were, and returns a report without transactions and pages and a nil
\* error.
HandleResultByFormat ==
    [][\A t \in Callers :
        /\ (loc[t].op = "none" /\ loc'[t].op = "HandleResult") =>
              HandlerNamed(loc'[t].result.ReportFormat, loc'[t].handler)
        /\ (ret' # ret /\ ret'.op = "HandleResult" /\ ret'.caller = t
              /\ ret'.result.ReportFormat \notin DispatchedFormats) =>
              /\ ret'.reqs = <<>>
              /\ ~ret'.err
              /\ ret'.val.ReportFormat = ret'.result.ReportFormat
              /\ ret'.val.Transactions = <<>>
              /\ ret'.val.Pages.PageURLs = <<>>
              /\ pc' = pc
              /\ authed' = authed
              /\ jar' = jar]_vars

\* HandleResult returned at once for an Unknown result whose URL is that of a
\* PTR, on a client that had been through the handshake
UndispatchedWithPTRPath ==
    /\ ret.op = "HandleResult"
    /\ ret.result.ReportFormat = UnknownFormat
    /\ ret.result.FileURL.Path = H_ptr
    /\ ret.reqs = <<>>
    /\ authed


(***************************************************************************)
(* Properties of ReportToJson (under SpecJson).                            *)
(***************************************************************************)
\* two Transactions agree on the fields that have a key
SameTransaction(a, b) ==
    /\ a.Date = b.Date
    /\ \A k \in TransactionStrings : TransactionField(a, k) = TransactionField(b, k)

\* the Transactions a JSON array holds
TransactionsHeld(v) == [i \in 1..Len(ElemsOf(v)) |-> TransactionOfJSON(ElemsOf(v)[i])]

\* the strings a JSON array holds
StringsHeld(v) == [i \in 1..Len(ElemsOf(v)) |-> StringOf(ElemsOf(v)[i])]

SameTransactions(as, bs) ==
    Len(as) = Len(bs) /\ \A i \in 1..Len(as) : SameTransaction(as[i], bs[i])

\* C17, as stated: ReportToJson returns JSON in which, for a PTR or Annual
\* result, transactions holds the Transactions of the report and pages is
\* empty, and for a Paper result pages holds the strings of the PageURLs of
\* the report in their order and transactions is empty.
PayloadByFormat ==
    output.kind = "ReportToJson" =>
        /\ ~output.val.panic
        /\ ~output.val.err
        /\ input.result.ReportFormat \in {PTRFormat, AnnualFormat} =>
              /\ SameTransactions(TransactionsHeld(output.val.out.members.transactions),
                                  input.parsedReport.Transactions)
              /\ ElemsOf(output.val.out.members.pages) = <<>>
        /\ input.result.ReportFormat = PaperFormat =>
              /\ StringsHeld(output.val.out.members.pages)
                    = [i \in 1..Len(input.parsedReport.Pages.PageURLs) |->
                          URLString(input.parsedReport.Pages.PageURLs[i])]
              /\ ElemsOf(output.val.out.members.transactions) = <<>>

\* C18, as stated: the ReportJson decoded from the bytes ReportToJson made of
\* a PTR result and its report has the first and the last name of the result,
\* a document URL with the string of the URL of the result, and the
\* Transactions of the report field by field.
RoundTripReproduces ==
    (/\ output.kind = "Unmarshal"
     /\ input.result.ReportFormat = PTRFormat
     /\ input.parsedReport.ReportFormat = PTRFormat) =>
        /\ ~output.val.err
        /\ output.val.val.FirstName = input.result.FirstName
        /\ output.val.val.LastName = input.result.LastName
        /\ output.val.val.ReportURL.URL # Nil
        /\ URLString(output.val.val.ReportURL.URL) = URLString(input.result.FileURL)
        /\ SameTransactions(output.val.val.Transactions, input.parsedReport.Transactions)


(***************************************************************************)
(* The URL of a search result (under SpecSearch).                          *)
(***************************************************************************)
\* the href of a row resolved against the base URL
ResolvedHref(row) == ResolveReference(baseURL, UrlParse(parseAnchor(row[4]).HREF).url)

\* path elements with every view element turned into print
ViewToPrint(segs) == [k \in 1..Len(segs) |-> IF segs[k] = S_view THEN S_print ELSE segs[k]]

\* C19: the URL of a returned result differs from the href of its row
\* resolved against the base URL exactly when its format is Paper; then the
\* path is the resolved path with its view element replaced by print, and
\* scheme and host are those of the resolved URL.
FileURLRewrittenIffPaper ==
    (SearchReturned /\ ~ret.err) =>
        \A i \in 1..Len(ret.val) :
            /\ ret.val[i].ReportFormat = URLToReportFormat(ResolvedHref(ret.origin[i].row).Path)
            /\ ret.val[i].ReportFormat # PaperFormat =>
                  ret.val[i].FileURL = ResolvedHref(ret.origin[i].row)
            /\ ret.val[i].ReportFormat = PaperFormat =>
                  /\ ret.val[i].FileURL.Path # ResolvedHref(ret.origin[i].row).Path
                  /\ SplitSlash(ret.val[i].FileURL.Path)
                        = ViewToPrint(SplitSlash(ResolvedHref(ret.origin[i].row).Path))
                  /\ ret.val[i].FileURL.Scheme = ResolvedHref(ret.origin[i].row).Scheme
                  /\ ret.val[i].FileURL.Host = ResolvedHref(ret.origin[i].row).Host

\* a search returned a paper report under its print path and a PTR whose
\* relative href was resolved
PaperAndResolvedPTRReturned ==
    /\ SearchReturned
    /\ ~ret.err
    /\ \E i \in 1..Len(ret.val) :
        /\ ret.val[i].ReportFormat = PaperFormat
        /\ ret.val[i].FileURL.Path = H_paperPrint
    /\ \E i \in 1..Len(ret.val) :
        /\ ret.val[i].ReportFormat = PTRFormat
        /\ parseAnchor(ret.origin[i].row[4]).HREF = H_ptrRel
        /\ ret.val[i].FileURL = [baseURL EXCEPT !.Path = H_ptr]


(***************************************************************************)
(* Termination of SearchReportData (under SpecSearchFair).                 *)
(***************************************************************************)
\* the k-th page request is for the offset (k-1) * length
StartsAdvance(reqs) == \A k \in 1..Len(reqs) : reqs[k].start = (k - 1) * length

\* no page request but the last was for a page with
\* recordsTotal - start - length <= 0
NoneBeyondLast(reqs) ==
    \A k \in 1..(Len(reqs) - 1) : reqs[k].resp.RecordsTotal - reqs[k].start - length > 0

\* the page requests succeeded up to the one that ended the loop
EndedAtFirstLast(reqs) ==
    /\ Len(reqs) >= 1
    /\ \A k \in 1..Len(reqs) : reqs[k].resp.kind = "ok"
    /\ NoneBeyondLast(reqs)
    /\ reqs[Len(reqs)].resp.RecordsTotal - reqs[Len(reqs)].start - length <= 0

\* C20: with the same recordsTotal on every page, a call of SearchReportData
\* that is in its loop eventually returns; start grows by exactly length from
\* one page request to the next, and a call all of whose page requests
\* succeeded returns its results at the first page for which
\* recordsTotal - start - length <= 0.
SearchTerminates ==
    /\ [](\A t \in Callers :
            pc[t] = "sr_loop" =>
                /\ StartsAdvance(loc[t].reqs)
                /\ loc[t].start = Len(loc[t].reqs) * length
                /\ NoneBeyondLast(loc[t].reqs)
                /\ \A k \in 1..Len(loc[t].reqs) :
                      loc[t].reqs[k].resp.RecordsTotal = loc[t].total)
    /\ [](SearchReturned =>
            /\ StartsAdvance(ret.reqs)
            /\ ~ret.err <=> EndedAtFirstLast(ret.reqs))
    /\ \A t \in Callers :
          (pc[t] = "sr_loop") ~> (pc[t] = "idle" /\ SearchReturned /\ ret.caller = t)

\* a search over as many full pages as the bound allows returned after the
\* last of them
SearchOfFullPages ==
    /\ SearchReturned
    /\ ~ret.err
    /\ Reported = MaxPages * length
    /\ Len(ret.reqs) = MaxPages
    /\ ret.reqs[Len(ret.reqs)].start = (MaxPages - 1) * length


(***************************************************************************)
(* The handshake of the document handlers (under Spec).                    *)
(***************************************************************************)
HandlerOps == Handlers \cup {"HandleResult"}

\* the requests of a handshake that went through: the GET of the home page
\* and the POST of the agreement, both answered
HandshakeDone(reqs) ==
    /\ Len(reqs) >= 2
    /\ reqs[1].kind = "homeGET"
    /\ reqs[2].kind = "homePOST"
    /\ reqs[2].resp.kind # "transportErr"

\* C21: a document-handler call that finds authed false starts with the
\* handshake and, when the handshake goes through, leaves authed true; a call
\* that finds authed true makes its GET and nothing else; and authed, once
\* true, stays true.  So in a sequence of calls the handshake is run once, by
\* the first call that fetches.
HandshakeOnce ==
    /\ []((ret.op \in HandlerOps /\ Len(ret.reqs) >= 1) =>
            /\ ~ret.reqs[1].authed =>
                  /\ ret.reqs[1].kind = "homeGET"
                  /\ HandshakeDone(ret.reqs) =>
                        /\ authed
                        /\ Len(ret.reqs) = 3
                        /\ ret.reqs[3].kind = "docGET"
                        /\ ret.reqs[3].authed
            /\ ret.reqs[1].authed =>
                  /\ Len(ret.reqs) = 1
                  /\ ret.reqs[1].kind = "docGET"
                  /\ authed)
    /\ [][authed => authed']_vars

\* a handler call that found authed true returned after its GET alone
HandshakeSkipped ==
    /\ ret.op \in HandlerOps
    /\ ~ret.err
    /\ Len(ret.reqs) = 1
    /\ ret.reqs[1].kind = "docGET"
    /\ ret.reqs[1].authed
    /\ "sessionid" \in ret.reqs[1].cookies


(***************************************************************************)
(* Interleaved handler calls (under SpecConcurrent).                       *)
(***************************************************************************)
\* C22: nothing orders the calls of two goroutines: a call skips the handshake
\* only when authed is set at its entry, a call that entered the handshake
\* carries it through whatever authed has become, and every request of both
\* goes through the one cookie store of the client, which holds the cookies
\* the home page set once a call is past its GET.
NoInternalLocking ==
    /\ [][\A t \in Threads :
            /\ (pc[t] = "ready" /\ pc'[t] # "ready") =>
                  \/ pc'[t] = "ad_get"
                  \/ pc'[t] = "h_get" /\ authed
            /\ (pc[t] = "ad_get" /\ pc'[t] = "ad_post") =>
                  loc'[t].reqs[Len(loc'[t].reqs)].kind = "homeGET"
            /\ (pc[t] = "ad_post" /\ pc'[t] = "h_get") =>
                  /\ loc'[t].reqs[Len(loc'[t].reqs)].kind = "homePOST"
                  /\ authed']_vars
    /\ [](\A t \in Threads :
            /\ pc[t] = "ad_post" => "csrftoken" \in jar
            /\ \A k \in 1..Len(loc[t].reqs) :
                  /\ loc[t].reqs[k].via = "session"
                  /\ loc[t].reqs[k].cookies \subseteq jar)

\* both calls found authed false and both went through the handshake, the
\* one that posted last when authed was set already
BothRanHandshake ==
    /\ \A t \in Threads :
        /\ pc[t] = "h_get"
        /\ HandshakeDone(loc[t].reqs)
        /\ ~loc[t].reqs[1].authed
    /\ \E t \in Threads : loc[t].reqs[2].authed


(***************************************************************************)
(* The cookie store and authed (under Spec).                               *)
(***************************************************************************)
\* C23, as stated: whenever authed is true the cookie store of the client
\* holds the cookie the handshake put there, and every GET of a document is
\* sent with it: after clearClient the next handler call runs the handshake
\* again before its GET.
AuthedStoreFilled ==
    /\ authed => "csrftoken" \in jar
    /\ \A k \in 1..Len(ret.reqs) :
          ret.reqs[k].kind = "docGET" => "csrftoken" \in ret.reqs[k].cookies


(***************************************************************************)
(* The POST of AcceptDisclaimer (under Spec).                              *)
(***************************************************************************)
\* the first field of the page named csrfmiddlewaretoken has a value that is
\* not empty
HasToken(page) ==
    \E i \in 1..Len(page) :
        /\ page[i].name = "csrfmiddlewaretoken"
        /\ \A j \in 1..(i - 1) : page[j].name # "csrfmiddlewaretoken"
        /\ page[i].hasValue
        /\ page[i].value # ""

\* the home page came with status 200 and a token
TokenRead(req) ==
    /\ req.kind = "homeGET"
    /\ req.resp.kind = "ok"
    /\ req.resp.status = 200
    /\ HasToken(req.resp.page)

\* in a log of requests, a POST of the agreement follows a GET of the home
\* page that gave a token, and a GET that gave none is the last request
PostOnlyAfterToken(reqs) ==
    \A k \in 1..Len(reqs) :
        /\ reqs[k].kind = "homePOST" => (k > 1 /\ TokenRead(reqs[k - 1]))
        /\ (reqs[k].kind = "homeGET" /\ ~TokenRead(reqs[k])) => k = Len(reqs)

\* C24: AcceptDisclaimer sends the POST of the agreement only after a GET of
\* the home page answered with status 200 and a page whose csrfmiddlewaretoken
\* has a non-empty value; when the GET gives no token the call fails with an
\* error and sends no POST.
PostNeedsToken ==
    /\ \A t \in Callers :
        /\ PostOnlyAfterToken(loc[t].reqs)
        /\ pc[t] = "ad_post" =>
              (loc[t].csrftoken # "" /\ TokenRead(loc[t].reqs[Len(loc[t].reqs)]))
    /\ PostOnlyAfterToken(ret.reqs)
    /\ (Len(ret.reqs) >= 1 /\ ret.reqs[Len(ret.reqs)].kind = "homeGET") => ret.err

\* AcceptDisclaimer failed on a home page of status 200 whose token field has
\* no value
TokenWithoutValue ==
    /\ ret.op = "AcceptDisclaimer"
    /\ ret.err
    /\ Len(ret.reqs) = 1
    /\ ret.reqs[1].resp.status = 200
    /\ ret.reqs[1].resp.kind = "ok"
    /\ ret.reqs[1].resp.page = <<FieldNoValue>>

(***************************************************************************)
(* The trailing slash of a document path (under SpecClassify).             *)
(***************************************************************************)
\* link is <...>/<segment>/<id> with one of the known segments, every
\* element a name
DocumentShape ==
    /\ \A i \in 1..Len(link.segs) : link.segs[i] \notin {<<>>, S_dotdot}
    /\ KnownElements(link.segs)

\* the same path with the trailing slash added or taken away
OtherTrail(in) == [in EXCEPT !.trail = ~in.trail]

\* C25: URLToReportFormat gives the same tag for a document path with and
\* without the trailing slash, for the shapes ptr, annual, paper and
\* extension-notice/regular.
TrailingSlashIrrelevant ==
    (format # "none" /\ DocumentShape) =>
        format = URLToReportFormat(PathOf(OtherTrail(link)))

(***************************************************************************)
(* Rows with a cell that fails (under SpecExtract).                        *)
(***************************************************************************)
\* handleTransactionCell returns false on the cell
CellFails(cell, ct) == ~handleTransactionCell(ZeroTransaction, cell, ct).ok

\* the cells before the comment cell that fail, of a row of 9 cells
FailingCells(tds, layout) == {j \in 1..8 : CellFails(tds[j], layout[j])}

RowFails(tds, layout) == Len(tds) = 9 /\ FailingCells(tds, layout) # {}

RowKept(tds, layout) == Len(tds) = 9 /\ FailingCells(tds, layout) = {}

FirstFailing(tds, layout) ==
    CHOOSE j \in FailingCells(tds, layout) : \A k \in FailingCells(tds, layout) : j <= k

\* the field of tr a cell of type ct is read into still has its zero value
Unread(tr, ct) ==
    \/ ct = "none"
    \/ ct = "trDateCell" /\ tr.Date = ZeroTime
    \/ ct = "ownerCell" /\ tr.Owner = <<>>
    \/ ct = "tickerCell" /\ tr.Ticker = <<>>
    \/ ct = "assetNameCell" /\ tr.AssetName = <<>>
    \/ ct = "assetTypeCell" /\ tr.AssetType = <<>>
    \/ ct = "trTypeCell" /\ tr.Type = <<>>
    \/ ct = "amountCell" /\ tr.Amount = <<>>
    \/ ct = "commentCell" /\ tr.Comment = <<>>

\* the Transaction of a failing row: not valid, and nothing read from the
\* cells after the first one that fails
RestUnread(tr, tds, layout) ==
    /\ ~tr.Valid
    /\ \A k \in (FirstFailing(tds, layout) + 1)..9 : Unread(tr, layout[k])

\* the Transaction a row of a table stands for when all its cells parse
RowTransactionOf(tds, layout) ==
    IF layout = PTRLayout THEN PTRRowTransaction(tds)
    ELSE IF layout = Part4aLayout THEN Row4aTransaction(tds)
    ELSE Row4bTransaction(tds)

KeptRows(rows, layout) == {i \in 1..Len(rows) : RowKept(rows[i], layout)}

\* out is what a table of rows gave: no entry for a failing row, nothing of
\* it read after the failing cell, and the rows after it that parse are in out
FailingRowsOnlyDropped(rows, layout, out) ==
    /\ Len(out) = Cardinality(KeptRows(rows, layout))
    /\ \A i \in 1..Len(rows) : RowFails(rows[i], layout) =>
        /\ RestUnread(TableRow(rows[i], layout), rows[i], layout)
        /\ \A m \in 1..Len(out) : out[m].Valid /\ out[m] # TableRow(rows[i], layout)
        /\ \A k \in (i + 1)..Len(rows) : RowKept(rows[k], layout) =>
            \E m \in 1..Len(out) : out[m] = RowTransactionOf(rows[k], layout)

\* the rows of the last section with a title: the table hdrs.Each leaves
LastRowsTitled(secs, title) ==
    IF SectionsTitled(secs, title) = {} THEN <<>>
    ELSE secs[CHOOSE i \in SectionsTitled(secs, title) :
                \A k \in SectionsTitled(secs, title) : k <= i].rows

AnnualRows4a == LastRowsTitled(input.doc.sections, S_title4a)
AnnualRows4b == LastRowsTitled(input.doc.sections, S_title4b)
Kept4a == Cardinality(KeptRows(AnnualRows4a, Part4aLayout))
Kept4b == Cardinality(KeptRows(AnnualRows4b, Part4bLayout))

\* C26: in each of the three layouts (PTR, Part 4a, Part 4b) a row with a
\* cell before the comment cell that fails to parse has its remaining cells
\* left unread, is never valid and is absent from the output, while the rows
\* after it are still processed and kept.
FailedRowOnlyDropped ==
    /\ PTRExtracted =>
        FailingRowsOnlyDropped(AllRows(input.doc.sections), PTRLayout, output.val)
    /\ output.kind = "HandleAnnualSearchResult" =>
        /\ Len(output.val) = Kept4a + Kept4b
        /\ FailingRowsOnlyDropped(AnnualRows4a, Part4aLayout, Take(output.val, Kept4a))
        /\ FailingRowsOnlyDropped(AnnualRows4b, Part4bLayout, Drop(output.val, Kept4a))

\* of a Part 4a and a Part 4b table that each start with a row whose cells
\* are in the columns of the other layout, the second rows were returned
FailedRowsOfBothParts ==
    /\ output.kind = "HandleAnnualSearchResult"
    /\ Len(input.doc.sections) = 2
    /\ input.doc.sections[1] = [title |-> S_title4a, rows |-> <<Row4bGood, Row4aGood>>]
    /\ input.doc.sections[2] = [title |-> S_title4b, rows |-> <<Row4aGood, Row4bGood>>]
    /\ RowFails(Row4bGood, Part4aLayout)
    /\ RowFails(Row4aGood, Part4bLayout)
    /\ output.val = <<Row4aTransaction(Row4aGood), Row4bTransaction(Row4bGood)>>

(***************************************************************************)
(* The columns of the three layouts (under SpecExtract).                   *)
(***************************************************************************)
\* the column, counted from 0, each field is read from
ColumnsPTR ==
    [Date |-> 1, Owner |-> 2, Ticker |-> 3, AssetName |-> 4, AssetType |-> 5, Type |-> 6,
     Amount |-> 7, Comment |-> 8]
Columns4a ==
    [Date |-> 2, Owner |-> 3, Ticker |-> 4, AssetName |-> 5, Type |-> 6, Amount |-> 7,
     Comment |-> 8]
Columns4b ==
    [Owner |-> 2, Ticker |-> 3, AssetName |-> 4, Type |-> 5, Date |-> 6, Amount |-> 7,
     Comment |-> 8]

\* the cell of column col of a row
Column(tds, col) == tds[col + 1]

\* tr holds what the columns cols of the row tds say
FieldsFromColumns(tr, tds, cols) ==
    /\ tr.Date = ParseDate(removeHTMLSelection(Column(tds, cols.Date))).t
    /\ tr.Owner = removeHTMLSelection(Column(tds, cols.Owner))
    /\ tr.Ticker = TickerOf(Column(tds, cols.Ticker))
    /\ tr.AssetName = removeHTMLSelection(Column(tds, cols.AssetName))
    /\ tr.AssetType = IF "AssetType" \in DOMAIN cols
                      THEN removeHTMLSelection(Column(tds, cols.AssetType)) ELSE <<>>
    /\ tr.Type = removeHTMLSelection(Column(tds, cols.Type))
    /\ tr.Amount = removeHTMLSelection(Column(tds, cols.Amount))
    /\ tr.Comment = removeHTMLSelection(Column(tds, cols.Comment))

\* the rows of 9 cells whose date and ticker, in the columns cols, parse
ParsesIn(tds, cols) ==
    /\ Len(tds) = 9
    /\ ~ParseDate(removeHTMLSelection(Column(tds, cols.Date))).err
    /\ TickerReadable(Column(tds, cols.Ticker))

RECURSIVE ParsingRows(_, _)
ParsingRows(rows, cols) ==
    IF Len(rows) = 0 THEN <<>>
    ELSE IF ParsesIn(Head(rows), cols) THEN <<Head(rows)>> \o ParsingRows(Tail(rows), cols)
    ELSE ParsingRows(Tail(rows), cols)

\* out holds, row by row, what the columns cols of the parsing rows say
ReadFromColumns(out, rows, cols) ==
    /\ Len(out) = Len(ParsingRows(rows, cols))
    /\ \A k \in 1..Len(out) : FieldsFromColumns(out[k], ParsingRows(rows, cols)[k], cols)

\* C27: each layout reads its fields from its own columns: the PTR table
\* date, owner, ticker, asset name, asset type, transaction type, amount and
\* comment from columns 1..8; Part 4a date, owner, ticker, asset name,
\* transaction type, amount and comment from columns 2..8; Part 4b owner,
\* ticker, asset name, transaction type, date, amount and comment from
\* columns 2..8; so AssetType is empty in every Transaction of
\* HandleAnnualSearchResult.
LayoutColumns ==
    /\ PTRExtracted => ReadFromColumns(output.val, AllRows(input.doc.sections), ColumnsPTR)
    /\ output.kind = "HandleAnnualSearchResult" =>
        /\ Len(output.val) = Len(ParsingRows(AnnualRows4a, Columns4a))
                                + Len(ParsingRows(AnnualRows4b, Columns4b))
        /\ ReadFromColumns(Take(output.val, Len(ParsingRows(AnnualRows4a, Columns4a))),
                           AnnualRows4a, Columns4a)
        /\ ReadFromColumns(Drop(output.val, Len(ParsingRows(AnnualRows4a, Columns4a))),
                           AnnualRows4b, Columns4b)
        /\ \A k \in 1..Len(output.val) : output.val[k].AssetType = <<>>

\* a row of Part 4a and a row of Part 4b were returned, the date of the
\* second read from column 6 and no asset type in either
BothLayoutsRead ==
    /\ output.kind = "HandleAnnualSearchResult"
    /\ Len(input.doc.sections) = 2
    /\ input.doc.sections[1] = [title |-> S_title4a, rows |-> <<Row4aGood>>]
    /\ input.doc.sections[2] = [title |-> S_title4b, rows |-> <<Row4bGood>>]
    /\ Len(output.val) = 2
    /\ output.val[1].Owner = C_owner /\ output.val[1].AssetType = <<>>
    /\ output.val[2].Owner = C_owner /\ output.val[2].AssetType = <<>>
    /\ output.val[2].Date = ParseDate(D_ok).t
    /\ output.val[2].Date # ZeroTime

(***************************************************************************)
(* The payload of a ParsedReport (under Spec).                             *)
(***************************************************************************)
\* C28: every ParsedReport returned by HandleResult holds one payload at
\* most: Transactions are non-empty only for a PTR or Annual result, the
\* page list is non-empty only for a Paper result, never both; and its
\* ReportFormat is that of the SearchResult.
OnePayloadAtMost ==
    ret.op = "HandleResult" =>
        /\ ret.val.Transactions # <<>> => ret.result.ReportFormat \in {PTRFormat, AnnualFormat}
        /\ ret.val.Pages.PageURLs # <<>> => ret.result.ReportFormat = PaperFormat
        /\ ret.val.Transactions = <<>> \/ ret.val.Pages.PageURLs = <<>>
        /\ ret.val.ReportFormat = ret.result.ReportFormat

\* HandleResult returned the pages of a Paper result and the transactions
\* of no table
PaperPayloadReturned ==
    /\ ret.op = "HandleResult"
    /\ ~ret.err
    /\ ret.result.ReportFormat = PaperFormat
    /\ ret.val.ReportFormat = PaperFormat
    /\ Len(ret.val.Pages.PageURLs) = 3
    /\ ret.val.Transactions = <<>>

(***************************************************************************)
(* The token of a page request (under SpecSearch).                         *)
(***************************************************************************)
\* the characters a-z, A-Z and 0-9
TokenRunes ==
    {LowerChars[i] : i \in 1..Len(LowerChars)} \cup {UpperChars[i] : i \in 1..Len(UpperChars)}
        \cup {Digits[i] : i \in 1..Len(Digits)}

IsTokenRune(c) == c \in TokenRunes

\* 64 characters, each a letter or a digit
IsGeneratedToken(tok) == Len(tok) = 64 /\ \A i \in 1..Len(tok) : IsTokenRune(tok[i])

\* the form field, the header and the cookie of a page request hold one
\* token of that form
CarriesOneToken(req) ==
    /\ IsGeneratedToken(req.form.csrftoken)
    /\ req.header.XCSRFToken = req.form.csrftoken
    /\ req.addedCookie.csrftoken = req.form.csrftoken

EachCarriesOneToken(reqs) ==
    \A k \in 1..Len(reqs) : reqs[k].kind = "searchPOST" => CarriesOneToken(reqs[k])

\* the step of t sends a page request
PageRequestSent(t) ==
    /\ pc[t] = "sr_loop"
    /\ \/ Len(loc'[t].reqs) = Len(loc[t].reqs) + 1
       \/ ret' # ret /\ Len(ret'.reqs) = Len(loc[t].reqs) + 1

\* the request it sends
RequestSent(t) ==
    IF pc'[t] = "sr_loop" THEN loc'[t].reqs[Len(loc'[t].reqs)] ELSE ret'.reqs[Len(ret'.reqs)]

\* C29: every search page request carries one generated token of 64
\* characters from [a-zA-Z0-9], the same in the csrftoken form field, the
\* X-CSRFToken header and the csrftoken cookie, and each page request
\* generates its token anew: sending it advances the source of math/rand.
TokenPerPageRequest ==
    /\ [](/\ EachCarriesOneToken(ret.reqs)
          /\ \A t \in Callers : EachCarriesOneToken(loc[t].reqs))
    /\ [][\A t \in Callers :
            PageRequestSent(t) => rng' # rng /\ RequestSent(t).kind = "searchPOST"]_vars

\* a search returned after two page requests that carried different tokens
TwoPagesTwoTokens ==
    /\ SearchReturned
    /\ ~ret.err
    /\ Len(ret.reqs) = 2
    /\ CarriesOneToken(ret.reqs[1])
    /\ CarriesOneToken(ret.reqs[2])
    /\ ret.reqs[1].form.csrftoken # ret.reqs[2].form.csrftoken

(***************************************************************************)
(* The SearchResult of the caller (under Spec).                            *)
(***************************************************************************)
\* C30: SearchResult is a value object: HandlePaperSearchResult, and
\* HandleResult on a Paper result, leave the URL of the SearchResult the
\* caller holds as it was, also when its path still contains "view".
CallerURLUnchanged ==
    [][\A t \in Callers :
        (/\ ret' # ret
         /\ ret'.caller = t
         /\ ret'.op \in {"HandlePaperSearchResult", "HandleResult"}
         /\ loc[t].handler = "HandlePaperSearchResult") =>
            ret'.result.FileURL = loc[t].result.FileURL]_vars

====
